---- MODULE Spec2Model ----
(***************************************************************************)
(* A model of the finalize store of snarkVM                                *)
(* (synthesizer/src/store/program/finalize.rs): the six storage maps of    *)
(* FinalizeStorage, the three-level Merkle authenticator and the           *)
(* FinalizeStore facade with its cached finalize tree, its speculate flag  *)
(* and its atomic-batch driver.                                            *)
(*                                                                         *)
(* Hashes and Merkle roots are symbolic: hash_bhp1024 wraps its preimage   *)
(* in a record, so two digests are equal exactly when their preimages are  *)
(* (a collision-free hash).  Option<T> is a sequence of length 0 or 1.     *)
(***************************************************************************)
EXTENDS Integers, Sequences, FiniteSets, TLC

\* ------------------------------------------------------------------ bounds
NumPrograms == 3
NumMappings == 3
NumKeys == 3
NumValues == 2
MaxCalls == 5
NumThreads == 2
MaxThreadCalls == 3

Programs == 1..NumPrograms
MappingNames == 1..NumMappings
Keys == 1..NumKeys
Values == 1..NumValues
Threads == 1..NumThreads

\* ------------------------------------------------------- program constants
FINALIZE_TREE_DEPTH == 32
PROGRAM_TREE_DEPTH == 5
MAPPING_TREE_DEPTH == 32

\* ----------------------------------------------------------------- options
None == <<>>
Some(v) == <<v>>
IsSome(o) == Len(o) = 1
Unwrap(o) == o[1]

\* A local binding (let x = v;), written Bind([x \in {v} |-> e]): v is computed
\* once and named x in e.
Bind(f) == f[CHOOSE x \in DOMAIN f : TRUE]

\* ------------------------------------------------------------------ hashing
\* N::hash_bhp1024 over the bit encoding of its argument.
hash_bhp1024(bits) == [h |-> bits]

\* mapping ID := Hash( program ID || mapping name )
MappingID(program_id, mapping_name) == hash_bhp1024(<<program_id, mapping_name>>)

\* key ID := Hash( mapping ID || Hash(key) )
KeyID(mapping_id, key) == hash_bhp1024(<<mapping_id, hash_bhp1024(<<key>>)>>)

\* A value ID that forgets the key it belongs to.
ValueID_of_value(key_id, value) == hash_bhp1024(<<hash_bhp1024(<<value>>)>>)

\* value ID := Hash( key ID || Hash(value) )
ValueID(key_id, value) == hash_bhp1024(<<key_id, hash_bhp1024(<<value>>)>>)

\* ----------------------------------------- indexmap::IndexMap and IndexSet
\* An IndexMap is a sequence of <<key, value>> pairs in insertion order, an
\* IndexSet a sequence of elements in insertion order.
RECURSIVE IndexOfKey(_, _, _)
IndexOfKey(im, k, i) ==
    IF i > Len(im) THEN 0
    ELSE IF im[i][1] = k THEN i
    ELSE IndexOfKey(im, k, i + 1)

\* IndexMap::get_index_of, 1-based here; 0 when the key is absent.
get_index_of(im, k) == IndexOfKey(im, k, 1)

IndexMap_contains_key(im, k) == get_index_of(im, k) # 0

IndexMap_get(im, k) ==
    IF IndexMap_contains_key(im, k) THEN Some(im[get_index_of(im, k)][2]) ELSE None

\* The sequence with its i-th element (1-based) replaced.
ReplaceAt(s, i, e) == SubSeq(s, 1, i - 1) \o <<e>> \o SubSeq(s, i + 1, Len(s))

\* An insert that moves an existing key to the end.
IndexMap_insert_moves(im, k, v) ==
    IF IndexMap_contains_key(im, k)
    THEN Append(SubSeq(im, 1, get_index_of(im, k) - 1) \o SubSeq(im, get_index_of(im, k) + 1, Len(im)),
                <<k, v>>)
    ELSE Append(im, <<k, v>>)

\* IndexMap::insert: an existing key keeps its position and has its value
\* replaced; a new key is appended.
IndexMap_insert(im, k, v) ==
    IF IndexMap_contains_key(im, k)
    THEN ReplaceAt(im, get_index_of(im, k), <<k, v>>)
    ELSE Append(im, <<k, v>>)

\* Removal of position i that shifts the later elements down by one
\* (Vec::remove, IndexMap::shift_remove).
ShiftRemoveAt(s, i) == SubSeq(s, 1, i - 1) \o SubSeq(s, i + 1, Len(s))

\* Removal of position i that moves the last element into the hole
\* (IndexMap::swap_remove).
SwapRemoveAt(s, i) ==
    IF i = Len(s) THEN SubSeq(s, 1, Len(s) - 1)
    ELSE SubSeq(s, 1, i - 1) \o <<s[Len(s)]>> \o SubSeq(s, i + 1, Len(s) - 1)

IndexMap_shift_remove(im, k) ==
    IF IndexMap_contains_key(im, k) THEN ShiftRemoveAt(im, get_index_of(im, k)) ELSE im

\* IndexMap::remove is documented as equivalent to swap_remove.
IndexMap_remove(im, k) ==
    IF IndexMap_contains_key(im, k) THEN SwapRemoveAt(im, get_index_of(im, k)) ELSE im

\* The keys (c = 1) or the values (c = 2) of the entries from the i-th on.
RECURSIVE Column(_, _, _)
Column(im, c, i) == IF i > Len(im) THEN <<>> ELSE <<im[i][c]>> \o Column(im, c, i + 1)

IndexMap_keys(im) == Column(im, 1, 1)
IndexMap_values(im) == Column(im, 2, 1)

RECURSIVE IndexOfElem(_, _, _)
IndexOfElem(is, e, i) ==
    IF i > Len(is) THEN 0
    ELSE IF is[i] = e THEN i
    ELSE IndexOfElem(is, e, i + 1)

IndexSet_contains(is, e) == IndexOfElem(is, e, 1) # 0

IndexSet_insert(is, e) == IF IndexSet_contains(is, e) THEN is ELSE Append(is, e)

\* IndexSet::remove is documented as equivalent to swap_remove.
IndexSet_remove(is, e) ==
    IF IndexSet_contains(is, e) THEN SwapRemoveAt(is, IndexOfElem(is, e, 1)) ELSE is

\* --------------------------------------------------------- the backend map
\* A backend map: the committed entries in insertion order, the batch flag
\* and the writes the open batch has enqueued (<<key, Some(value)>> for an
\* insert, <<key, None>> for a removal).
EmptyMap == [map |-> <<>>, batch_in_progress |-> FALSE, atomic_batch |-> <<>>]

\* The committed view.
Map_get(M, k) == IndexMap_get(M.map, k)
Map_contains_key(M, k) == IndexMap_contains_key(M.map, k)
Map_iter(M) == M.map
Map_values(M) == IndexMap_values(M.map)

RECURSIVE LastWrite(_, _, _)
LastWrite(batch, k, i) ==
    IF i = 0 THEN 0
    ELSE IF batch[i][1] = k THEN i
    ELSE LastWrite(batch, k, i - 1)

\* The pending view: the latest enqueued write of the key when a batch is in
\* progress and has one, else the committed view.
Map_get_speculative(M, k) ==
    IF ~M.batch_in_progress THEN Map_get(M, k)
    ELSE LET i == LastWrite(M.atomic_batch, k, Len(M.atomic_batch))
         IN IF i # 0 THEN M.atomic_batch[i][2] ELSE Map_get(M, k)

\* insert and remove are enqueued while a batch is open and applied at once
\* otherwise.
Map_insert(M, k, v) ==
    IF M.batch_in_progress
    THEN [M EXCEPT !.atomic_batch = Append(@, <<k, Some(v)>>)]
    ELSE [M EXCEPT !.map = IndexMap_insert(@, k, v)]

Map_remove(M, k) ==
    IF M.batch_in_progress
    THEN [M EXCEPT !.atomic_batch = Append(@, <<k, None>>)]
    ELSE [M EXCEPT !.map = IndexMap_shift_remove(@, k)]

Map_start_atomic(M) == [M EXCEPT !.batch_in_progress = TRUE]

Map_is_atomic_in_progress(M) == M.batch_in_progress

Map_abort_atomic(M) == [M EXCEPT !.atomic_batch = <<>>, !.batch_in_progress = FALSE]

RECURSIVE ApplyBatch(_, _, _)
ApplyBatch(m, batch, i) ==
    IF i > Len(batch) THEN m
    ELSE ApplyBatch(IF IsSome(batch[i][2])
                    THEN IndexMap_insert(m, batch[i][1], Unwrap(batch[i][2]))
                    ELSE IndexMap_shift_remove(m, batch[i][1]),
                    batch, i + 1)

\* finish commits the enqueued writes in the order they were enqueued.
Map_finish_atomic(M) ==
    [map |-> ApplyBatch(M.map, M.atomic_batch, 1),
     batch_in_progress |-> FALSE,
     atomic_batch |-> <<>>]

\* ---------------------------------------------------------- FinalizeStorage
\* The storage: six backend maps.
\*   program_id_map    : program ID -> IndexSet of mapping names
\*   program_index_map : program ID -> deployment index
\*   mapping_id_map    : <<program ID, mapping name>> -> mapping ID
\*   key_value_id_map  : mapping ID -> IndexMap of key ID -> value ID
\*   key_map           : key ID -> key
\*   value_map         : key ID -> value
MapNames ==
    <<"program_id_map", "program_index_map", "mapping_id_map",
      "key_value_id_map", "key_map", "value_map">>

FinalizeMemory_open ==
    [program_id_map |-> EmptyMap,
     program_index_map |-> EmptyMap,
     mapping_id_map |-> EmptyMap,
     key_value_id_map |-> EmptyMap,
     key_map |-> EmptyMap,
     value_map |-> EmptyMap]

Ok(S) == [err |-> "", s |-> S]
Err(e, S) == [err |-> e, s |-> S]
IsOk(r) == r.err = ""

start_atomic(S) ==
    [program_id_map |-> Map_start_atomic(S.program_id_map),
     program_index_map |-> Map_start_atomic(S.program_index_map),
     mapping_id_map |-> Map_start_atomic(S.mapping_id_map),
     key_value_id_map |-> Map_start_atomic(S.key_value_id_map),
     key_map |-> Map_start_atomic(S.key_map),
     value_map |-> Map_start_atomic(S.value_map)]

is_atomic_in_progress(S) == \E n \in DOMAIN S : Map_is_atomic_in_progress(S[n])

abort_atomic(S) ==
    [program_id_map |-> Map_abort_atomic(S.program_id_map),
     program_index_map |-> Map_abort_atomic(S.program_index_map),
     mapping_id_map |-> Map_abort_atomic(S.mapping_id_map),
     key_value_id_map |-> Map_abort_atomic(S.key_value_id_map),
     key_map |-> Map_abort_atomic(S.key_map),
     value_map |-> Map_abort_atomic(S.value_map)]

finish_atomic(S) ==
    Ok([program_id_map |-> Map_finish_atomic(S.program_id_map),
        program_index_map |-> Map_finish_atomic(S.program_index_map),
        mapping_id_map |-> Map_finish_atomic(S.mapping_id_map),
        key_value_id_map |-> Map_finish_atomic(S.key_value_id_map),
        key_map |-> Map_finish_atomic(S.key_map),
        value_map |-> Map_finish_atomic(S.value_map)])

\* finish_atomic when the finish of the n-th map returns an error: the maps
\* before it have finished, the failing map has committed nothing, and the
\* `?` returns before the maps after it are reached.
finish_atomic_fails(S, n) ==
    Err("FinishFailed",
        [program_id_map |-> IF 1 < n THEN Map_finish_atomic(S.program_id_map) ELSE S.program_id_map,
         program_index_map |-> IF 2 < n THEN Map_finish_atomic(S.program_index_map) ELSE S.program_index_map,
         mapping_id_map |-> IF 3 < n THEN Map_finish_atomic(S.mapping_id_map) ELSE S.mapping_id_map,
         key_value_id_map |-> IF 4 < n THEN Map_finish_atomic(S.key_value_id_map) ELSE S.key_value_id_map,
         key_map |-> IF 5 < n THEN Map_finish_atomic(S.key_map) ELSE S.key_map,
         value_map |-> S.value_map])

\* The atomic_write_batch! macro, around a body that has returned r: the batch
\* is opened unless one is already in progress (BatchOpened, the storage the
\* body starts from), an error of the body aborts the batch, and the batch
\* is finished unless it is part of a larger one.
BatchOpened(S) == IF is_atomic_in_progress(S) THEN S ELSE start_atomic(S)

atomic_write_batch(S, r) ==
    IF ~IsOk(r) THEN Err(r.err, abort_atomic(r.s))
    ELSE IF is_atomic_in_progress(S) THEN r
    ELSE finish_atomic(r.s)

\* Writes to one of the six maps.
insert(S, n, k, v) == [S EXCEPT ![n] = Map_insert(@, k, v)]
remove(S, n, k) == [S EXCEPT ![n] = Map_remove(@, k)]

\* An addition that adds nothing.
saturating_add_none(a, b) == a

\* u32 arithmetic; the deployment indices of the model stay far below the
\* u32 maximum, where saturating_add would stop growing.
saturating_add(a, b) == a + b
saturating_sub(a, b) == IF a < b THEN 0 ELSE a - b

RECURSIVE SeqMax(_, _, _)
SeqMax(s, i, acc) == IF i > Len(s) THEN acc ELSE SeqMax(s, i + 1, IF s[i] > acc THEN s[i] ELSE acc)

get_mapping_id(S, program_id, mapping_name) ==
    Map_get_speculative(S.mapping_id_map, <<program_id, mapping_name>>)

\* An initialization that does not look whether the mapping exists.
FinalizeStorage_initialize_mapping_unchecked(S, program_id, mapping_name) ==
    LET mapping_id == MappingID(program_id, mapping_name)
        names == Map_get_speculative(S.program_id_map, program_id)
        mapping_names == IndexSet_insert(IF IsSome(names) THEN Unwrap(names) ELSE <<>>, mapping_name)
        index == Map_get_speculative(S.program_index_map, program_id)
        values == Map_values(S.program_index_map)
        program_index ==
            IF IsSome(index) THEN Unwrap(index)
            ELSE IF Len(values) > 0 THEN saturating_add(SeqMax(values, 1, 0), 1)
            ELSE 0
    IN atomic_write_batch(S, LET s0 == BatchOpened(S) IN
        LET s1 == insert(s0, "program_id_map", program_id, mapping_names)
            s2 == insert(s1, "program_index_map", program_id, program_index)
            s3 == insert(s2, "mapping_id_map", <<program_id, mapping_name>>, mapping_id)
            s4 == insert(s3, "key_value_id_map", mapping_id, <<>>)
        IN Ok(s4))

FinalizeStorage_initialize_mapping(S, program_id, mapping_name) ==
    IF Map_contains_key(S.mapping_id_map, <<program_id, mapping_name>>)
    THEN Err("MappingAlreadyExists", S)
    ELSE
    LET mapping_id == MappingID(program_id, mapping_name) IN
    IF Map_contains_key(S.key_value_id_map, mapping_id)
    THEN Err("MappingIDAlreadyExists", S)
    ELSE
    LET names == Map_get_speculative(S.program_id_map, program_id)
        mapping_names == IndexSet_insert(IF IsSome(names) THEN Unwrap(names) ELSE <<>>, mapping_name)
        index == Map_get_speculative(S.program_index_map, program_id)
        values == Map_values(S.program_index_map)
        program_index ==
            IF IsSome(index) THEN Unwrap(index)
            ELSE IF Len(values) > 0 THEN saturating_add(SeqMax(values, 1, 0), 1)
            ELSE 0
    IN atomic_write_batch(S, LET s0 == BatchOpened(S) IN
        LET s1 == insert(s0, "program_id_map", program_id, mapping_names)
            s2 == insert(s1, "program_index_map", program_id, program_index)
            s3 == insert(s2, "mapping_id_map", <<program_id, mapping_name>>, mapping_id)
            s4 == insert(s3, "key_value_id_map", mapping_id, <<>>)
        IN Ok(s4))

\* An insert that overwrites the value of a key the mapping already holds.
FinalizeStorage_insert_key_value_overwrites(S, program_id, mapping_name, key, value) ==
    LET mid == get_mapping_id(S, program_id, mapping_name) IN
    IF ~IsSome(mid) THEN Err("MappingNotInitialized", S)
    ELSE
    LET mapping_id == Unwrap(mid)
        key_id == KeyID(mapping_id, key)
        value_id == ValueID(key_id, value)
        kv == Map_get_speculative(S.key_value_id_map, mapping_id)
    IN
    IF ~IsSome(kv) THEN Err("MappingIDNotInitialized", S)
    ELSE
    LET key_value_ids == IndexMap_insert(Unwrap(kv), key_id, value_id)
    IN atomic_write_batch(S, LET s0 == BatchOpened(S) IN
        LET s1 == insert(s0, "key_value_id_map", mapping_id, key_value_ids)
            s2 == insert(s1, "key_map", key_id, key)
            s3 == insert(s2, "value_map", key_id, value)
        IN Ok(s3))

FinalizeStorage_insert_key_value(S, program_id, mapping_name, key, value) ==
    LET mid == get_mapping_id(S, program_id, mapping_name) IN
    IF ~IsSome(mid) THEN Err("MappingNotInitialized", S)
    ELSE
    LET mapping_id == Unwrap(mid)
        key_id == KeyID(mapping_id, key)
        value_id == ValueID(key_id, value)
    IN
    IF Map_contains_key(S.key_map, key_id) THEN Err("KeyAlreadyExists", S)
    ELSE
    LET kv == Map_get_speculative(S.key_value_id_map, mapping_id) IN
    IF ~IsSome(kv) THEN Err("MappingIDNotInitialized", S)
    ELSE IF IndexMap_contains_key(Unwrap(kv), key_id) THEN Err("KeyIDAlreadyExists", S)
    ELSE
    LET key_value_ids == IndexMap_insert(Unwrap(kv), key_id, value_id)
    IN atomic_write_batch(S, LET s0 == BatchOpened(S) IN
        LET s1 == insert(s0, "key_value_id_map", mapping_id, key_value_ids)
            s2 == insert(s1, "key_map", key_id, key)
            s3 == insert(s2, "value_map", key_id, value)
        IN Ok(s3))

\* An update that creates the mapping when it is not initialized.
FinalizeStorage_update_key_value_creates(S, program_id, mapping_name, key, value) ==
    LET mapping_id == MappingID(program_id, mapping_name)
        key_id == KeyID(mapping_id, key)
        value_id == ValueID(key_id, value)
        kv == Map_get_speculative(S.key_value_id_map, mapping_id)
        key_value_ids == IndexMap_insert(IF IsSome(kv) THEN Unwrap(kv) ELSE <<>>, key_id, value_id)
    IN atomic_write_batch(S, LET s0 == BatchOpened(S) IN
        LET s1 == insert(s0, "mapping_id_map", <<program_id, mapping_name>>, mapping_id)
            s2 == insert(s1, "key_value_id_map", mapping_id, key_value_ids)
            s3 == insert(s2, "key_map", key_id, key)
            s4 == insert(s3, "value_map", key_id, value)
        IN Ok(s4))

FinalizeStorage_update_key_value(S, program_id, mapping_name, key, value) ==
    LET mid == get_mapping_id(S, program_id, mapping_name) IN
    IF ~IsSome(mid) THEN Err("MappingNotInitialized", S)
    ELSE
    LET mapping_id == Unwrap(mid)
        key_id == KeyID(mapping_id, key)
        value_id == ValueID(key_id, value)
        kv == Map_get_speculative(S.key_value_id_map, mapping_id)
    IN
    IF ~IsSome(kv) THEN Err("MappingIDNotInitialized", S)
    ELSE IF ~IsSome(Map_get_speculative(S.key_map, key_id))
            /\ IndexMap_contains_key(Unwrap(kv), key_id)
    THEN Err("InconsistentState", S)
    ELSE
    LET key_value_ids == IndexMap_insert(Unwrap(kv), key_id, value_id)
    IN atomic_write_batch(S, LET s0 == BatchOpened(S) IN
        LET s1 == insert(s0, "key_value_id_map", mapping_id, key_value_ids)
            s2 == insert(s1, "key_map", key_id, key)
            s3 == insert(s2, "value_map", key_id, value)
        IN Ok(s3))

FinalizeStorage_remove_key_value(S, program_id, mapping_name, key) ==
    LET mid == get_mapping_id(S, program_id, mapping_name) IN
    IF ~IsSome(mid) THEN Err("MappingNotInitialized", S)
    ELSE
    LET mapping_id == Unwrap(mid)
        key_id == KeyID(mapping_id, key)
        kv == Map_get_speculative(S.key_value_id_map, mapping_id)
    IN
    IF ~IsSome(kv) THEN Err("MappingIDNotInitialized", S)
    ELSE IF ~IndexMap_contains_key(Unwrap(kv), key_id) THEN Err("KeyNotFound", S)
    ELSE
    LET key_value_ids == IndexMap_remove(Unwrap(kv), key_id)
    IN atomic_write_batch(S, LET s0 == BatchOpened(S) IN
        LET s1 == insert(s0, "key_value_id_map", mapping_id, key_value_ids)
            s2 == remove(s1, "key_map", key_id)
            s3 == remove(s2, "value_map", key_id)
        IN Ok(s3))

\* A removal of a mapping that leaves its keys and values behind.
RemoveKeys_none(S, key_ids, i) == S

\* for key_id in key_value_ids.keys() { key_map.remove; value_map.remove }
RECURSIVE RemoveKeys(_, _, _)
RemoveKeys(S, key_ids, i) ==
    IF i > Len(key_ids) THEN S
    ELSE RemoveKeys(remove(remove(S, "key_map", key_ids[i]), "value_map", key_ids[i]),
                    key_ids, i + 1)

FinalizeStorage_remove_mapping(S, program_id, mapping_name) ==
    LET mid == get_mapping_id(S, program_id, mapping_name) IN
    IF ~IsSome(mid) THEN Err("MappingNotInitialized", S)
    ELSE
    LET mapping_id == Unwrap(mid)
        kv == Map_get_speculative(S.key_value_id_map, mapping_id)
        names == Map_get_speculative(S.program_id_map, program_id)
    IN
    IF ~IsSome(kv) THEN Err("MappingIDNotInitialized", S)
    ELSE IF ~IsSome(names) THEN Err("ProgramNotFound", S)
    ELSE IF ~IndexSet_contains(Unwrap(names), mapping_name) THEN Err("MappingNameNotFound", S)
    ELSE
    LET mapping_names == IndexSet_remove(Unwrap(names), mapping_name)
    IN atomic_write_batch(S, LET s0 == BatchOpened(S) IN
        LET s1 == insert(s0, "program_id_map", program_id, mapping_names)
            s2 == remove(s1, "mapping_id_map", <<program_id, mapping_name>>)
            s3 == remove(s2, "key_value_id_map", mapping_id)
        IN Ok(RemoveKeys(s3, IndexMap_keys(Unwrap(kv)), 1)))

\* A remove_program that leaves the later deployment indices as they are.
ShiftIndexes_none(S, entries, deployment_index, i) == S

\* for (program_id, index) in program_index_map.iter() { if index > deployment_index ... }
RECURSIVE ShiftIndexes(_, _, _, _)
ShiftIndexes(S, entries, deployment_index, i) ==
    IF i > Len(entries) THEN S
    ELSE ShiftIndexes(
            IF entries[i][2] > deployment_index
            THEN insert(S, "program_index_map", entries[i][1], saturating_sub(entries[i][2], 1))
            ELSE S,
            entries, deployment_index, i + 1)

\* A removal of a program that removes the first of its mappings only.
RemoveEachMapping_first(S, program_id, mapping_names, i) ==
    IF Len(mapping_names) = 0 THEN Ok(S)
    ELSE
    LET mapping_id == MappingID(program_id, mapping_names[1])
        kv == Map_get_speculative(S.key_value_id_map, mapping_id)
    IN
    IF ~IsSome(kv) THEN Err("MappingIDNotInitialized", S)
    ELSE Ok(RemoveKeys(remove(remove(S, "mapping_id_map", <<program_id, mapping_names[1]>>),
                              "key_value_id_map", mapping_id),
                       IndexMap_keys(Unwrap(kv)), 1))

\* for mapping_name in mapping_names.iter() { ... }
RECURSIVE RemoveEachMapping(_, _, _, _)
RemoveEachMapping(S, program_id, mapping_names, i) ==
    IF i > Len(mapping_names) THEN Ok(S)
    ELSE
    LET mid == get_mapping_id(S, program_id, mapping_names[i]) IN
    IF ~IsSome(mid) THEN Err("MappingNotInitialized", S)
    ELSE
    LET mapping_id == Unwrap(mid)
        kv == Map_get_speculative(S.key_value_id_map, mapping_id)
    IN
    IF ~IsSome(kv) THEN Err("MappingIDNotInitialized", S)
    ELSE
    LET s1 == remove(S, "mapping_id_map", <<program_id, mapping_names[i]>>)
        s2 == remove(s1, "key_value_id_map", mapping_id)
        s3 == RemoveKeys(s2, IndexMap_keys(Unwrap(kv)), 1)
    IN RemoveEachMapping(s3, program_id, mapping_names, i + 1)

\* A removal of a program that succeeds when the program is not there.
FinalizeStorage_remove_program_lenient(S, program_id) ==
    LET names == Map_get_speculative(S.program_id_map, program_id)
        index == Map_get_speculative(S.program_index_map, program_id)
    IN
    IF ~IsSome(names) \/ ~IsSome(index) THEN Ok(S)
    ELSE atomic_write_batch(S, LET s0 == BatchOpened(S) IN
        LET s1 == remove(s0, "program_id_map", program_id)
            s2 == remove(s1, "program_index_map", program_id)
            s3 == ShiftIndexes(s2, Map_iter(s2.program_index_map), Unwrap(index), 1)
        IN RemoveEachMapping(s3, program_id, Unwrap(names), 1))

FinalizeStorage_remove_program(S, program_id) ==
    LET names == Map_get_speculative(S.program_id_map, program_id)
        index == Map_get_speculative(S.program_index_map, program_id)
    IN
    IF ~IsSome(names) THEN Err("ProgramNotFound", S)
    ELSE IF ~IsSome(index) THEN Err("ProgramIndexNotFound", S)
    ELSE atomic_write_batch(S, LET s0 == BatchOpened(S) IN
        LET s1 == remove(s0, "program_id_map", program_id)
            s2 == remove(s1, "program_index_map", program_id)
            s3 == ShiftIndexes(s2, Map_iter(s2.program_index_map), Unwrap(index), 1)
        IN RemoveEachMapping(s3, program_id, Unwrap(names), 1))

\* ------------------------------------------------------------------ queries
contains_program(S, program_id) ==
    Map_contains_key(S.program_id_map, program_id) /\ Map_contains_key(S.program_index_map, program_id)

contains_mapping(S, program_id, mapping_name) ==
    Map_contains_key(S.mapping_id_map, <<program_id, mapping_name>>)

contains_key(S, program_id, mapping_name, key) ==
    LET mid == get_mapping_id(S, program_id, mapping_name) IN
    IF ~IsSome(mid) THEN FALSE
    ELSE Map_contains_key(S.key_map, KeyID(Unwrap(mid), key))

get_mapping_names(S, program_id) == Map_get_speculative(S.program_id_map, program_id)

get_key_id(S, program_id, mapping_name, key) ==
    LET mid == get_mapping_id(S, program_id, mapping_name) IN
    IF ~IsSome(mid) THEN None
    ELSE IF Map_contains_key(S.key_map, KeyID(Unwrap(mid), key))
    THEN Some(KeyID(Unwrap(mid), key))
    ELSE None

get_key(S, key_id) == Map_get_speculative(S.key_map, key_id)

\* A value lookup that reads the key of the key ID instead of its value.
get_value_from_key_id_key(S, key_id) == Map_get_speculative(S.key_map, key_id)

get_value_from_key_id(S, key_id) == Map_get_speculative(S.value_map, key_id)

get_value(S, program_id, mapping_name, key) ==
    LET kid == get_key_id(S, program_id, mapping_name, key) IN
    IF IsSome(kid) THEN get_value_from_key_id(S, Unwrap(kid))
    ELSE LET key_id == KeyID(MappingID(program_id, mapping_name), key) IN
         IF IsSome(Map_get_speculative(S.key_map, key_id))
         THEN get_value_from_key_id(S, key_id)
         ELSE None

\* Ord for Field<N>, the order a BTreeMap keeps mapping IDs in.  The digests
\* are symbolic, so a mapping ID is compared by its preimage
\* <<program ID, mapping name>>: a fixed total order that does not depend on
\* the order in which the mappings were initialized.
Field_lt(a, b) == a.h[1] < b.h[1] \/ (a.h[1] = b.h[1] /\ a.h[2] < b.h[2])

\* A collection that keeps the order of the iterator it is filled from.
BTreeMap_into_values_unsorted(im) == IndexMap_values(im)

\* collect::<BTreeMap<_, _>>() then into_values(): the values by ascending key.
RECURSIVE BTreeMap_into_values(_)
BTreeMap_into_values(im) ==
    IF Len(im) = 0 THEN <<>>
    ELSE Bind([i \in {CHOOSE j \in 1..Len(im) :
                        \A l \in 1..Len(im) : l = j \/ Field_lt(im[j][1], im[l][1])} |->
         <<im[i][2]>> \o BTreeMap_into_values(ShiftRemoveAt(im, i))])

\* The mapping checksum: Hash( mapping_id || all value IDs ).
mapping_checksum(mapping_id, key_value_ids) ==
    hash_bhp1024(<<mapping_id>> \o IndexMap_values(key_value_ids))

\* key_value_id_map().iter().map(|(mapping_id, key_value_ids)| ...): the
\* pairs <<mapping_id, mapping_checksum>> from the i-th entry on.
RECURSIVE MappingChecksums(_, _)
MappingChecksums(entries, i) ==
    IF i > Len(entries) THEN <<>>
    ELSE <<<<entries[i][1], mapping_checksum(entries[i][1], entries[i][2])>>>>
         \o MappingChecksums(entries, i + 1)

\* Returns the checksum: Hash( all mapping checksums ).
get_checksum(S) ==
    hash_bhp1024(BTreeMap_into_values(MappingChecksums(Map_iter(S.key_value_id_map), 1)))

\* ------------------------------------------------------ Merkle authenticator
\* A Merkle tree is its depth and its leaves in order; its root is the hash
\* of both.  N::merkle_tree_bhp fails when the leaves exceed 2^depth.
TreeOk(t) == [err |-> "", tree |-> t]
TreeErr(e) == [err |-> e, tree |-> [depth |-> 0, leaves |-> <<>>]]

Fits(depth, n) == depth >= 31 \/ n <= 2 ^ depth

merkle_tree_bhp(depth, leaves) ==
    IF Fits(depth, Len(leaves)) THEN TreeOk([depth |-> depth, leaves |-> leaves])
    ELSE TreeErr("TreeTooLarge")

root(tree) == hash_bhp1024(<<tree.depth, tree.leaves>>)

\* MerkleTree::prepare_update: a new tree with the leaf at leaf_index
\* (0-based) replaced; the index must be below the number of leaves.
prepare_update(tree, leaf_index, new_leaf) ==
    IF leaf_index < Len(tree.leaves)
    THEN TreeOk([tree EXCEPT !.leaves = ReplaceAt(@, leaf_index + 1, new_leaf)])
    ELSE TreeErr("LeafIndexOutOfBounds")

\* MerkleTree::prepare_append: a new tree with the leaves appended.
prepare_append(tree, new_leaves) == merkle_tree_bhp(tree.depth, tree.leaves \o new_leaves)

\* MerkleTreeUpdate; index is 0-based as in the source.
InsertValue(mapping_id, key_id, value_id) ==
    [type |-> "InsertValue", mapping_id |-> mapping_id, index |-> 0, value_id |-> Some(value_id)]

\* An update of a value that the tree takes for the insertion of a new one.
UpdateValue_as_insert(mapping_id, index, key_id, value_id) ==
    InsertValue(mapping_id, key_id, value_id)

UpdateValue(mapping_id, index, key_id, value_id) ==
    [type |-> "UpdateValue", mapping_id |-> mapping_id, index |-> index, value_id |-> Some(value_id)]
RemoveValue(mapping_id, index) ==
    [type |-> "RemoveValue", mapping_id |-> mapping_id, index |-> index, value_id |-> None]
InsertMapping(mapping_id) ==
    [type |-> "InsertMapping", mapping_id |-> mapping_id, index |-> 0, value_id |-> None]
RemoveMapping(mapping_id) ==
    [type |-> "RemoveMapping", mapping_id |-> mapping_id, index |-> 0, value_id |-> None]

\* The roots of the trees an IndexMap holds as values, from the i-th on.
RECURSIVE Roots(_, _)
Roots(trees, i) == IF i > Len(trees) THEN <<>> ELSE <<root(trees[i][2])>> \o Roots(trees, i + 1)

\* The loop of to_mapping_tree over the updates: [err, leaves].
RECURSIVE ApplyLeafUpdates(_, _, _, _)
ApplyLeafUpdates(leaves, mapping_id, updates, i) ==
    IF i > Len(updates) THEN [err |-> "", leaves |-> leaves]
    ELSE
    LET update == updates[i] IN
    IF update.mapping_id # mapping_id THEN ApplyLeafUpdates(leaves, mapping_id, updates, i + 1)
    ELSE IF update.type = "InsertValue"
    THEN ApplyLeafUpdates(Append(leaves, Unwrap(update.value_id)), mapping_id, updates, i + 1)
    ELSE IF update.type = "UpdateValue"
    THEN IF update.index < Len(leaves)
         THEN ApplyLeafUpdates(ReplaceAt(leaves, update.index + 1, Unwrap(update.value_id)),
                               mapping_id, updates, i + 1)
         ELSE [err |-> "MissingKeyValueLeaf", leaves |-> leaves]
    ELSE IF update.type = "RemoveValue"
    THEN IF update.index < Len(leaves)
         THEN ApplyLeafUpdates(ShiftRemoveAt(leaves, update.index + 1), mapping_id, updates, i + 1)
         ELSE [err |-> "Panic", leaves |-> leaves]
    ELSE ApplyLeafUpdates(leaves, mapping_id, updates, i + 1)

\* Returns the mapping ID and the Merkle tree of a mapping: [err, mapping_id, tree].
to_mapping_tree(S, program_id, mapping_name, optional_updates) ==
    LET none == [err |-> "", mapping_id |-> MappingID(program_id, mapping_name),
                 tree |-> [depth |-> MAPPING_TREE_DEPTH, leaves |-> <<>>]]
    IN
    Bind([mid \in {get_mapping_id(S, program_id, mapping_name)} |->
    IF ~IsSome(mid) THEN [none EXCEPT !.err = "MissingMappingID"]
    ELSE
    Bind([key_values \in {Map_get_speculative(S.key_value_id_map, Unwrap(mid))} |->
    IF ~IsSome(key_values) THEN [none EXCEPT !.err = "MissingKeyValues"]
    ELSE
    Bind([r \in {ApplyLeafUpdates(IndexMap_values(Unwrap(key_values)), Unwrap(mid), optional_updates, 1)} |->
    Bind([t \in {merkle_tree_bhp(MAPPING_TREE_DEPTH, r.leaves)} |->
    [err |-> IF r.err # "" THEN r.err ELSE t.err, mapping_id |-> Unwrap(mid), tree |-> t.tree]])])])])

\* The mapping trees of the program's mapping names, collected into an
\* IndexMap of mapping ID -> tree: [err, trees].
RECURSIVE CollectMappingTrees(_, _, _, _, _, _)
CollectMappingTrees(S, program_id, mapping_names, optional_updates, i, acc) ==
    IF i > Len(mapping_names) THEN [err |-> "", trees |-> acc]
    ELSE
    Bind([r \in {to_mapping_tree(S, program_id, mapping_names[i], optional_updates)} |->
    IF r.err # "" THEN [err |-> r.err, trees |-> acc]
    ELSE CollectMappingTrees(S, program_id, mapping_names, optional_updates, i + 1,
                             IndexMap_insert(acc, r.mapping_id, r.tree))])

\* The loop of to_program_tree over the updates.
RECURSIVE ApplyMappingUpdates(_, _, _)
ApplyMappingUpdates(mapping_trees, updates, i) ==
    IF i > Len(updates) THEN mapping_trees
    ELSE ApplyMappingUpdates(
            IF updates[i].type = "InsertMapping"
            THEN IndexMap_insert(mapping_trees, updates[i].mapping_id,
                                 [depth |-> MAPPING_TREE_DEPTH, leaves |-> <<>>])
            ELSE IF updates[i].type = "RemoveMapping"
            THEN IndexMap_shift_remove(mapping_trees, updates[i].mapping_id)
            ELSE mapping_trees,
            updates, i + 1)

\* Returns the Merkle tree of the program's mapping state, as if the updates
\* were applied (no updates: the empty sequence).
to_program_tree(S, program_id, optional_updates) ==
    Bind([names \in {Map_get_speculative(S.program_id_map, program_id)} |->
    Bind([c \in {CollectMappingTrees(S, program_id, IF IsSome(names) THEN Unwrap(names) ELSE <<>>,
                             optional_updates, 1, <<>>)} |->
    IF c.err # "" THEN TreeErr(c.err)
    ELSE
    Bind([mapping_trees \in {ApplyMappingUpdates(c.trees, optional_updates, 1)} |->
    merkle_tree_bhp(PROGRAM_TREE_DEPTH,
                    Roots(mapping_trees, 1))])])])

\* The program trees by deployment index: [err, trees], an IndexMap of
\* index -> tree filled in the iteration order of program_index_map.
RECURSIVE CollectProgramTrees(_, _, _, _)
CollectProgramTrees(S, entries, i, acc) ==
    IF i > Len(entries) THEN [err |-> "", trees |-> acc]
    ELSE
    Bind([t \in {to_program_tree(S, entries[i][1], <<>>)} |->
    IF t.err # "" THEN [err |-> t.err, trees |-> acc]
    ELSE CollectProgramTrees(S, entries, i + 1, IndexMap_insert(acc, entries[i][2], t.tree))])

\* IndexMap::sort_keys on integer keys.
RECURSIVE sort_keys(_)
sort_keys(im) ==
    IF Len(im) = 0 THEN <<>>
    ELSE Bind([i \in {CHOOSE j \in 1..Len(im) : \A l \in 1..Len(im) : im[j][1] <= im[l][1]} |->
         <<im[i]>> \o sort_keys(ShiftRemoveAt(im, i))])

\* Returns the Merkle tree of the program state.
to_finalize_tree(S) ==
    Bind([c \in {CollectProgramTrees(S, Map_iter(S.program_index_map), 1, <<>>)} |->
    IF c.err # "" THEN TreeErr(c.err)
    ELSE
    Bind([program_trees \in {sort_keys(c.trees)} |->
    merkle_tree_bhp(FINALIZE_TREE_DEPTH,
                    Roots(program_trees, 1))])])

\* ------------------------------------------------------------ FinalizeStore
\* The facade: the storage, the cached finalize tree (behind its lock) and
\* the speculate flag.  Every mutator returns [err, st].
StoreOk(st) == [err |-> "", st |-> st]
StoreErr(e, st) == [err |-> e, st |-> st]

FinalizeStore_from(S) ==
    [storage |-> S, tree |-> to_finalize_tree(S).tree, is_speculate |-> FALSE]

\* A facade that installs the tree it computed whatever the storage returns.
Install_always(st, r, updated_tree) ==
    [err |-> r.err, st |-> [st EXCEPT !.storage = r.s, !.tree = updated_tree]]

\* The tail every mutator but remove_program shares: the storage mutation,
\* then the installation of the updated tree.
Install(st, r, updated_tree) ==
    IF ~IsOk(r) THEN StoreErr(r.err, [st EXCEPT !.storage = r.s])
    ELSE StoreOk([st EXCEPT !.storage = r.s, !.tree = updated_tree])

\* A speculate branch that rebuilds the cached tree from the storage.
Speculate_rebuilds(st, r) ==
    IF ~IsOk(r) THEN StoreErr(r.err, [st EXCEPT !.storage = r.s])
    ELSE StoreOk([st EXCEPT !.storage = r.s, !.tree = to_finalize_tree(r.s).tree])

\* The speculate branch: the storage mutation alone.
Speculate(st, r) ==
    IF ~IsOk(r) THEN StoreErr(r.err, [st EXCEPT !.storage = r.s])
    ELSE StoreOk([st EXCEPT !.storage = r.s])

\* An update of the cached tree at the first leaf, whatever the program.
UpdateAtProgramIndex_first(st, program_id, program_tree) ==
    prepare_update(st.tree, 0, root(program_tree))

\* The index of the program in the committed program_index_map, then
\* tree.prepare_update at that index.
UpdateAtProgramIndex(st, program_id, program_tree) ==
    Bind([index \in {Map_get(st.storage.program_index_map, program_id)} |->
    IF ~IsSome(index) THEN TreeErr("MissingProgramID")
    ELSE prepare_update(st.tree, Unwrap(index), root(program_tree))])

FinalizeStore_initialize_mapping(st, program_id, mapping_name) ==
    IF st.is_speculate
    THEN Speculate(st, FinalizeStorage_initialize_mapping(st.storage, program_id, mapping_name))
    ELSE
    LET mapping_id == MappingID(program_id, mapping_name) IN
    Bind([program_tree \in {to_program_tree(st.storage, program_id, <<InsertMapping(mapping_id)>>)} |->
    IF program_tree.err # "" THEN StoreErr(program_tree.err, st)
    ELSE
    Bind([index \in {Map_get(st.storage.program_index_map, program_id)} |->
    Bind([updated_tree \in {IF IsSome(index)
         THEN prepare_update(st.tree, Unwrap(index), root(program_tree.tree))
         ELSE prepare_append(st.tree, <<root(program_tree.tree)>>)} |->
    IF updated_tree.err # "" THEN StoreErr(updated_tree.err, st)
    ELSE Install(st, FinalizeStorage_initialize_mapping(st.storage, program_id, mapping_name),
                 updated_tree.tree)])])])

FinalizeStore_insert_key_value(st, program_id, mapping_name, key, value) ==
    IF st.is_speculate
    THEN Speculate(st, FinalizeStorage_insert_key_value(st.storage, program_id, mapping_name, key, value))
    ELSE
    Bind([mid \in {get_mapping_id(st.storage, program_id, mapping_name)} |->
    IF ~IsSome(mid) THEN StoreErr("MappingNotInitialized", st)
    ELSE
    Bind([mapping_id \in {Unwrap(mid)} |->
    Bind([key_id \in {KeyID(mapping_id, key)} |->
    Bind([program_tree \in {to_program_tree(st.storage, program_id,
                         <<InsertValue(mapping_id, key_id, ValueID(key_id, value))>>)} |->
    IF program_tree.err # "" THEN StoreErr(program_tree.err, st)
    ELSE
    Bind([updated_tree \in {UpdateAtProgramIndex(st, program_id, program_tree.tree)} |->
    IF updated_tree.err # "" THEN StoreErr(updated_tree.err, st)
    ELSE Install(st, FinalizeStorage_insert_key_value(st.storage, program_id, mapping_name, key, value),
                 updated_tree.tree)])])])])])

FinalizeStore_update_key_value(st, program_id, mapping_name, key, value) ==
    IF st.is_speculate
    THEN Speculate(st, FinalizeStorage_update_key_value(st.storage, program_id, mapping_name, key, value))
    ELSE
    Bind([mid \in {get_mapping_id(st.storage, program_id, mapping_name)} |->
    IF ~IsSome(mid) THEN StoreErr("MappingNotInitialized", st)
    ELSE
    Bind([mapping_id \in {Unwrap(mid)} |->
    Bind([key_id \in {KeyID(mapping_id, key)} |->
    Bind([value_id \in {ValueID(key_id, value)} |->
    Bind([key_value_map \in {Map_get(st.storage.key_value_id_map, mapping_id)} |->
    IF ~IsSome(key_value_map) THEN StoreErr("MissingMappingID", st)
    ELSE
    Bind([key_id_index \in {get_index_of(Unwrap(key_value_map), key_id)} |->
    Bind([program_tree \in {to_program_tree(st.storage, program_id,
                         <<IF key_id_index # 0
                           THEN UpdateValue(mapping_id, key_id_index - 1, key_id, value_id)
                           ELSE InsertValue(mapping_id, key_id, value_id)>>)} |->
    IF program_tree.err # "" THEN StoreErr(program_tree.err, st)
    ELSE
    Bind([updated_tree \in {UpdateAtProgramIndex(st, program_id, program_tree.tree)} |->
    IF updated_tree.err # "" THEN StoreErr(updated_tree.err, st)
    ELSE Install(st, FinalizeStorage_update_key_value(st.storage, program_id, mapping_name, key, value),
                 updated_tree.tree)])])])])])])])])

FinalizeStore_remove_key_value(st, program_id, mapping_name, key) ==
    IF st.is_speculate
    THEN Speculate(st, FinalizeStorage_remove_key_value(st.storage, program_id, mapping_name, key))
    ELSE
    Bind([mid \in {get_mapping_id(st.storage, program_id, mapping_name)} |->
    IF ~IsSome(mid) THEN StoreErr("MappingNotInitialized", st)
    ELSE
    Bind([mapping_id \in {Unwrap(mid)} |->
    Bind([key_value_map \in {Map_get(st.storage.key_value_id_map, mapping_id)} |->
    IF ~IsSome(key_value_map) THEN StoreErr("MissingMappingID", st)
    ELSE
    Bind([key_id_index \in {get_index_of(Unwrap(key_value_map), KeyID(mapping_id, key))} |->
    IF key_id_index = 0 THEN StoreErr("MissingKeyID", st)
    ELSE
    Bind([program_tree \in {to_program_tree(st.storage, program_id, <<RemoveValue(mapping_id, key_id_index - 1)>>)} |->
    IF program_tree.err # "" THEN StoreErr(program_tree.err, st)
    ELSE
    Bind([updated_tree \in {UpdateAtProgramIndex(st, program_id, program_tree.tree)} |->
    IF updated_tree.err # "" THEN StoreErr(updated_tree.err, st)
    ELSE Install(st, FinalizeStorage_remove_key_value(st.storage, program_id, mapping_name, key),
                 updated_tree.tree)])])])])])])

FinalizeStore_remove_mapping(st, program_id, mapping_name) ==
    IF st.is_speculate
    THEN Speculate(st, FinalizeStorage_remove_mapping(st.storage, program_id, mapping_name))
    ELSE
    Bind([mid \in {get_mapping_id(st.storage, program_id, mapping_name)} |->
    IF ~IsSome(mid) THEN StoreErr("MappingNotInitialized", st)
    ELSE
    Bind([program_tree \in {to_program_tree(st.storage, program_id, <<RemoveMapping(Unwrap(mid))>>)} |->
    IF program_tree.err # "" THEN StoreErr(program_tree.err, st)
    ELSE
    Bind([updated_tree \in {UpdateAtProgramIndex(st, program_id, program_tree.tree)} |->
    IF updated_tree.err # "" THEN StoreErr(updated_tree.err, st)
    ELSE Install(st, FinalizeStorage_remove_mapping(st.storage, program_id, mapping_name),
                 updated_tree.tree)])])])

\* A remove_program that leaves the cached tree as it is.
FinalizeStore_remove_program_keeps_tree(st, program_id) ==
    Speculate(st, FinalizeStorage_remove_program(st.storage, program_id))

\* remove_program renumbers the deployment indices, so the finalize tree is
\* rebuilt from the storage after the storage mutation.
FinalizeStore_remove_program(st, program_id) ==
    IF st.is_speculate
    THEN Speculate(st, FinalizeStorage_remove_program(st.storage, program_id))
    ELSE
    Bind([r \in {FinalizeStorage_remove_program(st.storage, program_id)} |->
    IF ~IsOk(r) THEN StoreErr(r.err, [st EXCEPT !.storage = r.s])
    ELSE
    Bind([updated_tree \in {to_finalize_tree(r.s)} |->
    IF updated_tree.err # "" THEN StoreErr(updated_tree.err, [st EXCEPT !.storage = r.s])
    ELSE StoreOk([st EXCEPT !.storage = r.s, !.tree = updated_tree.tree])])])

FinalizeStore_start_atomic(st) == [st EXCEPT !.storage = start_atomic(@)]
FinalizeStore_abort_atomic(st) == [st EXCEPT !.storage = abort_atomic(@)]
FinalizeStore_finish_atomic(st) ==
    Bind([r \in {finish_atomic(st.storage)} |-> [err |-> r.err, st |-> [st EXCEPT !.storage = r.s]]])

\* Returns the current storage root.
current_storage_root(st) == root(st.tree)

\* ------------------------------------------------------------ state machine
VARIABLES
    storage,        \* FinalizeStore.storage: the six backend maps
    tree,           \* FinalizeStore.tree: the cached finalize tree
    is_speculate,   \* FinalizeStore.is_speculate
    twin,           \* Some(a second store in speculate mode given the same calls), or None
    at_start,       \* Some(committed maps and root at the last start_atomic), or None
    last,           \* the last call of the facade, its arguments and its outcome
    calls,          \* the number of calls so far
    threads,        \* per thread: where it is inside the mutator it called
    lock            \* the holder of the write lock of FinalizeStore.tree, or 0

vars == <<storage, tree, is_speculate, twin, at_start, last, calls, threads, lock>>

Store == [storage |-> storage, tree |-> tree, is_speculate |-> is_speculate]

\* The committed content of the six maps.
Committed(S) ==
    [program_id_map |-> S.program_id_map.map,
     program_index_map |-> S.program_index_map.map,
     mapping_id_map |-> S.mapping_id_map.map,
     key_value_id_map |-> S.key_value_id_map.map,
     key_map |-> S.key_map.map,
     value_map |-> S.value_map.map]

\* The writes the open batch has enqueued, map by map.
Writes(S) ==
    [program_id_map |-> S.program_id_map.atomic_batch,
     program_index_map |-> S.program_index_map.atomic_batch,
     mapping_id_map |-> S.mapping_id_map.atomic_batch,
     key_value_id_map |-> S.key_value_id_map.atomic_batch,
     key_map |-> S.key_map.atomic_batch,
     value_map |-> S.value_map.atomic_batch]

\* The committed maps with the enqueued writes applied.
Written(S, writes) ==
    [program_id_map |-> [S.program_id_map EXCEPT !.map = ApplyBatch(@, writes.program_id_map, 1)],
     program_index_map |-> [S.program_index_map EXCEPT !.map = ApplyBatch(@, writes.program_index_map, 1)],
     mapping_id_map |-> [S.mapping_id_map EXCEPT !.map = ApplyBatch(@, writes.mapping_id_map, 1)],
     key_value_id_map |-> [S.key_value_id_map EXCEPT !.map = ApplyBatch(@, writes.key_value_id_map, 1)],
     key_map |-> [S.key_map EXCEPT !.map = ApplyBatch(@, writes.key_map, 1)],
     value_map |-> [S.value_map EXCEPT !.map = ApplyBatch(@, writes.value_map, 1)]]

\* A thread that is in no call of the store.
Idle ==
    [pc |-> "idle", op |-> "", args |-> <<>>, speculate |-> FALSE,
     view |-> FinalizeMemory_open, tree_seen |-> FinalizeStore_from(FinalizeMemory_open).tree,
     updated_tree |-> FinalizeStore_from(FinalizeMemory_open).tree,
     writes |-> Writes(FinalizeMemory_open)]

RECURSIVE Repeat(_, _)
Repeat(e, n) == IF n = 0 THEN <<>> ELSE Append(Repeat(e, n - 1), e)

Init ==
    /\ storage = FinalizeMemory_open
    /\ tree = FinalizeStore_from(FinalizeMemory_open).tree
    /\ is_speculate = FALSE
    /\ twin = None
    /\ at_start = None
    /\ last = [op |-> "open", args |-> <<>>, err |-> ""]
    /\ calls = 0
    /\ threads = Repeat(Idle, NumThreads)
    /\ lock = 0

\* Two stores opened over the same (empty) storage content; the second one
\* is switched to speculate mode before the first call.
InitTwin ==
    /\ Init!1 /\ Init!2 /\ Init!3 /\ Init!5 /\ Init!6 /\ Init!7 /\ Init!8 /\ Init!9
    /\ twin = Some([FinalizeStore_from(FinalizeMemory_open) EXCEPT !.is_speculate = TRUE])

\* The mutator call op(args) returned r = [err, st]; rt is what the same call
\* returns on the twin store.
Returned(op, args, r, rt) ==
    /\ calls < MaxCalls
    /\ storage' = r.st.storage
    /\ tree' = r.st.tree
    /\ is_speculate' = r.st.is_speculate
    /\ twin' = IF IsSome(twin) THEN Some(rt.st) ELSE twin
    /\ last' = [op |-> op, args |-> args, err |-> r.err]
    /\ calls' = calls + 1
    /\ UNCHANGED <<at_start, threads, lock>>

Twin == Unwrap(twin)

Call_initialize_mapping(p, m) ==
    Returned("initialize_mapping", <<p, m>>,
             FinalizeStore_initialize_mapping(Store, p, m),
             FinalizeStore_initialize_mapping(Twin, p, m))

Call_insert_key_value(p, m, k, v) ==
    Returned("insert_key_value", <<p, m, k, v>>,
             FinalizeStore_insert_key_value(Store, p, m, k, v),
             FinalizeStore_insert_key_value(Twin, p, m, k, v))

Call_update_key_value(p, m, k, v) ==
    Returned("update_key_value", <<p, m, k, v>>,
             FinalizeStore_update_key_value(Store, p, m, k, v),
             FinalizeStore_update_key_value(Twin, p, m, k, v))

Call_remove_key_value(p, m, k) ==
    Returned("remove_key_value", <<p, m, k>>,
             FinalizeStore_remove_key_value(Store, p, m, k),
             FinalizeStore_remove_key_value(Twin, p, m, k))

Call_remove_mapping(p, m) ==
    Returned("remove_mapping", <<p, m>>,
             FinalizeStore_remove_mapping(Store, p, m),
             FinalizeStore_remove_mapping(Twin, p, m))

Call_remove_program(p) ==
    Returned("remove_program", <<p>>,
             FinalizeStore_remove_program(Store, p),
             FinalizeStore_remove_program(Twin, p))

\* The caller toggles the speculate flag (is_speculate.store).
Call_set_speculate(b) ==
    /\ calls < MaxCalls
    /\ is_speculate # b
    /\ is_speculate' = b
    /\ last' = [op |-> "set_speculate", args |-> <<b>>, err |-> ""]
    /\ calls' = calls + 1
    /\ UNCHANGED <<storage, tree, twin, at_start, threads, lock>>

\* The caller opens a batch on the store.
Call_start_atomic ==
    /\ calls < MaxCalls
    /\ ~is_atomic_in_progress(storage)
    /\ storage' = FinalizeStore_start_atomic(Store).storage
    /\ at_start' = Some([maps |-> Committed(storage), root |-> current_storage_root(Store)])
    /\ last' = [op |-> "start_atomic", args |-> <<>>, err |-> ""]
    /\ calls' = calls + 1
    /\ UNCHANGED <<tree, is_speculate, twin, threads, lock>>

Call_abort_atomic ==
    /\ is_atomic_in_progress(storage)
    /\ storage' = FinalizeStore_abort_atomic(Store).storage
    /\ last' = [op |-> "abort_atomic", args |-> <<>>, err |-> ""]
    /\ UNCHANGED <<tree, is_speculate, twin, at_start, calls, threads, lock>>

Call_finish_atomic ==
    /\ is_atomic_in_progress(storage)
    /\ storage' = FinalizeStore_finish_atomic(Store).st.storage
    /\ last' = [op |-> "finish_atomic", args |-> <<>>, err |-> FinalizeStore_finish_atomic(Store).err]
    /\ UNCHANGED <<tree, is_speculate, twin, at_start, calls, threads, lock>>

\* The identifiers a call may name.  The store treats program IDs, mapping
\* names and keys as opaque, so a call names either one the pending view
\* already holds or the first one it does not hold: any other absent
\* identifier behaves as that one does.
FirstAbsent(all, held) ==
    IF all \ held = {} THEN {} ELSE {CHOOSE x \in all \ held : \A y \in all \ held : x <= y}

ProgramsHeld == {p \in Programs : IsSome(Map_get_speculative(storage.program_id_map, p))}

MappingsHeld(p) == {m \in MappingNames : IsSome(get_mapping_id(storage, p, m))}

KeysHeld(p, m) ==
    {k \in Keys : IsSome(Map_get_speculative(storage.key_map, KeyID(MappingID(p, m), k)))}

CallPrograms == ProgramsHeld \cup FirstAbsent(Programs, ProgramsHeld)
CallMappings(p) == MappingsHeld(p) \cup FirstAbsent(MappingNames, MappingsHeld(p))
CallKeys(p, m) == KeysHeld(p, m) \cup FirstAbsent(Keys, KeysHeld(p, m))

Mutate ==
    \E p \in CallPrograms :
        \/ Call_remove_program(p)
        \/ \E m \in CallMappings(p) :
            \/ Call_initialize_mapping(p, m)
            \/ Call_remove_mapping(p, m)
            \/ \E k \in CallKeys(p, m) :
                \/ Call_remove_key_value(p, m, k)
                \/ \E v \in Values :
                    \/ Call_insert_key_value(p, m, k, v)
                    \/ Call_update_key_value(p, m, k, v)

\* The facade mutators, never in speculate mode and never inside a batch the
\* caller opened.
Next == Mutate

Spec == Init /\ [][Next]_vars

\* The same, with a twin store in speculate mode given the same calls.
SpecTwin == InitTwin /\ [][Next]_vars

\* The facade mutators with the speculate flag toggled between calls.
NextSpeculate == Mutate \/ \E b \in BOOLEAN : Call_set_speculate(b)

SpecSpeculate == Init /\ [][NextSpeculate]_vars

\* The facade mutators inside and outside batches the caller opens.
NextAtomic == Mutate \/ Call_start_atomic \/ Call_abort_atomic \/ Call_finish_atomic

SpecAtomic == Init /\ [][NextAtomic]_vars

\* The caller finishes its batch and the finish of the n-th map fails.
Call_finish_atomic_fails(n) ==
    /\ calls < MaxCalls
    /\ is_atomic_in_progress(storage)
    /\ storage' = finish_atomic_fails(storage, n).s
    /\ last' = [op |-> "finish_atomic", args |-> <<n>>, err |-> finish_atomic_fails(storage, n).err]
    /\ calls' = calls + 1
    /\ UNCHANGED <<tree, is_speculate, twin, at_start, threads, lock>>

\* The same as SpecAtomic, with backend maps whose finish may fail.
NextFaulty == NextAtomic \/ \E n \in 1..Len(MapNames) : Call_finish_atomic_fails(n)

SpecFaulty == Init /\ [][NextFaulty]_vars

\* ------------------------------------------------------- concurrent callers
\* Threads call the mutators of one shared store.  A call loads the speculate
\* flag, takes the write lock of the tree unless the flag was set, reads the
\* storage (the checks of the storage mutator and, under the lock, the
\* construction of the updated tree), writes its batch, and under the lock
\* installs the updated tree and releases the lock.
Apply(op, args, st) ==
    CASE op = "initialize_mapping" -> FinalizeStore_initialize_mapping(st, args[1], args[2])
      [] op = "insert_key_value" -> FinalizeStore_insert_key_value(st, args[1], args[2], args[3], args[4])
      [] op = "update_key_value" -> FinalizeStore_update_key_value(st, args[1], args[2], args[3], args[4])
      [] op = "remove_key_value" -> FinalizeStore_remove_key_value(st, args[1], args[2], args[3])
      [] op = "remove_mapping" -> FinalizeStore_remove_mapping(st, args[1], args[2])
      [] op = "remove_program" -> FinalizeStore_remove_program(st, args[1])

\* if self.is_speculate.load(Ordering::SeqCst) { ... } else { ... }
Thread_load(t, op, args) ==
    /\ calls < MaxThreadCalls
    /\ threads[t].pc = "idle"
    /\ threads' = [threads EXCEPT ![t] =
            [Idle EXCEPT !.pc = IF is_speculate THEN "in" ELSE "loaded",
                         !.op = op, !.args = args, !.speculate = is_speculate]]
    /\ calls' = calls + 1
    /\ UNCHANGED <<storage, tree, is_speculate, twin, at_start, last, lock>>

\* let mut tree = self.tree.write();
Thread_lock(t) ==
    /\ threads[t].pc = "loaded"
    /\ lock = 0
    /\ lock' = t
    /\ threads' = [threads EXCEPT ![t].pc = "in"]
    /\ UNCHANGED <<storage, tree, is_speculate, twin, at_start, last, calls>>

\* A lock that stays with the thread whose call has returned.
Released_never(t) == lock

\* The lock once the call of thread t has returned.
Released(t) == IF lock = t THEN 0 ELSE lock

\* The call of thread t has read the storage and the tree and got r.
Thread_has_read(t, r) ==
    LET me == threads[t] IN
    /\ IF r.err # ""
       THEN /\ threads' = [threads EXCEPT ![t] = Idle]
            /\ lock' = Released(t)
            /\ last' = [op |-> me.op, args |-> me.args, err |-> r.err]
       ELSE /\ threads' = [threads EXCEPT ![t] =
                    [me EXCEPT !.pc = "validated", !.view = storage, !.tree_seen = tree,
                               !.updated_tree = r.st.tree,
                               !.writes = Writes(r.st.storage)]]
            /\ UNCHANGED <<lock, last>>
    /\ UNCHANGED <<storage, tree, is_speculate, twin, at_start, calls>>

\* The reads of a call: the updated tree (under the lock) and the checks of
\* the storage mutator, up to its atomic_write_batch.  A failed check returns
\* the error to the caller.
Thread_read(t) ==
    /\ threads[t].pc = "in"
    /\ threads[t].op # "remove_program"
    /\ Thread_has_read(t, Apply(threads[t].op, threads[t].args,
            [storage |-> start_atomic(storage), tree |-> tree,
             is_speculate |-> threads[t].speculate]))

\* A write step that loses the writes of the call.
Thread_write_lost(t) ==
    LET me == threads[t] IN
    /\ me.pc = "validated"
    /\ storage' = storage
    /\ IF me.speculate
       THEN /\ threads' = [threads EXCEPT ![t] = Idle]
            /\ last' = [op |-> me.op, args |-> me.args, err |-> ""]
       ELSE /\ threads' = [threads EXCEPT ![t] = [me EXCEPT !.pc = "written", !.view = storage']]
            /\ UNCHANGED last
    /\ UNCHANGED <<tree, is_speculate, twin, at_start, calls, lock>>

\* atomic_write_batch!(self, { ... }) of the storage mutator: the writes the
\* call has prepared are committed to the six maps.
Thread_write(t) ==
    LET me == threads[t] IN
    /\ me.pc = "validated"
    /\ storage' = Written(storage, me.writes)
    /\ IF me.speculate
       THEN /\ threads' = [threads EXCEPT ![t] = Idle]
            /\ last' = [op |-> me.op, args |-> me.args, err |-> ""]
       ELSE /\ threads' = [threads EXCEPT ![t] = [me EXCEPT !.pc = "written", !.view = storage']]
            /\ UNCHANGED last
    /\ UNCHANGED <<tree, is_speculate, twin, at_start, calls, lock>>

\* *tree = updated_tree; and the write guard is dropped on return.
Thread_install(t) ==
    LET me == threads[t] IN
    /\ me.pc = "written"
    /\ tree' = me.updated_tree
    /\ lock' = Released(t)
    /\ threads' = [threads EXCEPT ![t] = Idle]
    /\ last' = [op |-> me.op, args |-> me.args, err |-> ""]
    /\ UNCHANGED <<storage, is_speculate, twin, at_start, calls>>

\* The call of thread t has returned r.
Thread_returned(t, r) ==
    /\ storage' = r.st.storage
    /\ tree' = r.st.tree
    /\ lock' = Released(t)
    /\ threads' = [threads EXCEPT ![t] = Idle]
    /\ last' = [op |-> threads[t].op, args |-> threads[t].args, err |-> r.err]
    /\ UNCHANGED <<is_speculate, twin, at_start, calls>>

\* remove_program reads the storage inside its batch and rebuilds the tree
\* from the storage it has written: the call is taken in one step.
Thread_remove_program(t) ==
    /\ threads[t].pc = "in"
    /\ threads[t].op = "remove_program"
    /\ Thread_returned(t, Apply(threads[t].op, threads[t].args,
            [storage |-> storage, tree |-> tree, is_speculate |-> threads[t].speculate]))

Thread_call(t) ==
    \E p \in CallPrograms :
        \/ Thread_load(t, "remove_program", <<p>>)
        \/ \E m \in CallMappings(p) :
            \/ Thread_load(t, "initialize_mapping", <<p, m>>)
            \/ Thread_load(t, "remove_mapping", <<p, m>>)
            \/ \E k \in CallKeys(p, m) :
                \/ Thread_load(t, "remove_key_value", <<p, m, k>>)
                \/ \E v \in Values :
                    \/ Thread_load(t, "insert_key_value", <<p, m, k, v>>)
                    \/ Thread_load(t, "update_key_value", <<p, m, k, v>>)

\* The caller toggles the speculate flag while no call is in flight.
Quiescent_set_speculate(b) ==
    /\ calls < MaxThreadCalls
    /\ \A t \in Threads : threads[t].pc = "idle"
    /\ Call_set_speculate(b)

NextConcurrent ==
    \/ \E t \in Threads :
        \/ Thread_call(t)
        \/ Thread_lock(t)
        \/ Thread_read(t)
        \/ Thread_write(t)
        \/ Thread_install(t)
        \/ Thread_remove_program(t)
    \/ \E b \in BOOLEAN : Quiescent_set_speculate(b)

SpecConcurrent == Init /\ [][NextConcurrent]_vars

\* Concurrent callers of a store opened over a storage that already holds a
\* program with one mapping and one key.
Populated ==
    FinalizeStorage_insert_key_value(
        FinalizeStorage_initialize_mapping(FinalizeMemory_open, 1, 1).s, 1, 1, 1, 1).s

InitPopulated ==
    /\ Init!3 /\ Init!4 /\ Init!5 /\ Init!6 /\ Init!7 /\ Init!8 /\ Init!9
    /\ storage = Populated
    /\ tree = FinalizeStore_from(Populated).tree

SpecRace == InitPopulated /\ [][NextConcurrent]_vars

\* finish_atomic map by map: the six finish_atomic calls of
\* FinalizeStorage::finish_atomic are separate steps, and a reader (the
\* queries take no lock) can run between two of them.
\* The first map, in the order of finish_atomic, that has writes to commit.
NextToFinish(writes) ==
    IF \A n \in 1..Len(MapNames) : writes[MapNames[n]] = <<>> THEN 0
    ELSE CHOOSE n \in 1..Len(MapNames) :
            /\ writes[MapNames[n]] # <<>>
            /\ \A l \in 1..(n - 1) : writes[MapNames[l]] = <<>>

\* The storage once the n-th map has finished its batch.
FinishMap(S, writes, n) ==
    [program_id_map |-> IF n = 1 THEN [S.program_id_map EXCEPT !.map = ApplyBatch(@, writes.program_id_map, 1)] ELSE S.program_id_map,
     program_index_map |-> IF n = 2 THEN [S.program_index_map EXCEPT !.map = ApplyBatch(@, writes.program_index_map, 1)] ELSE S.program_index_map,
     mapping_id_map |-> IF n = 3 THEN [S.mapping_id_map EXCEPT !.map = ApplyBatch(@, writes.mapping_id_map, 1)] ELSE S.mapping_id_map,
     key_value_id_map |-> IF n = 4 THEN [S.key_value_id_map EXCEPT !.map = ApplyBatch(@, writes.key_value_id_map, 1)] ELSE S.key_value_id_map,
     key_map |-> IF n = 5 THEN [S.key_map EXCEPT !.map = ApplyBatch(@, writes.key_map, 1)] ELSE S.key_map,
     value_map |-> IF n = 6 THEN [S.value_map EXCEPT !.map = ApplyBatch(@, writes.value_map, 1)] ELSE S.value_map]

\* The writes still enqueued once the maps up to the n-th have finished.
StillEnqueued(writes, n) ==
    [program_id_map |-> IF n >= 1 THEN <<>> ELSE writes.program_id_map,
     program_index_map |-> IF n >= 2 THEN <<>> ELSE writes.program_index_map,
     mapping_id_map |-> IF n >= 3 THEN <<>> ELSE writes.mapping_id_map,
     key_value_id_map |-> IF n >= 4 THEN <<>> ELSE writes.key_value_id_map,
     key_map |-> IF n >= 5 THEN <<>> ELSE writes.key_map,
     value_map |-> IF n >= 6 THEN <<>> ELSE writes.value_map]

\* self.<map>().finish_atomic()?; for the next map of the call of thread t.
Thread_finish_map(t) ==
    LET me == threads[t]
        n == NextToFinish(me.writes)
        rest == StillEnqueued(me.writes, n)
    IN
    /\ me.pc = "validated"
    /\ n # 0
    /\ storage' = FinishMap(storage, me.writes, n)
    /\ IF NextToFinish(rest) # 0
       THEN /\ threads' = [threads EXCEPT ![t] = [me EXCEPT !.writes = rest]]
            /\ UNCHANGED last
       ELSE IF me.speculate
       THEN /\ threads' = [threads EXCEPT ![t] = Idle]
            /\ last' = [op |-> me.op, args |-> me.args, err |-> ""]
       ELSE /\ threads' = [threads EXCEPT ![t] = [me EXCEPT !.pc = "written", !.view = storage', !.writes = rest]]
            /\ UNCHANGED last
    /\ UNCHANGED <<tree, is_speculate, twin, at_start, calls, lock>>

\* Callers with the speculate flag off, serialized by the write lock of the
\* tree, whose batches are finished map by map.
NextCommit ==
    \E t \in Threads :
        \/ Thread_call(t)
        \/ Thread_lock(t)
        \/ Thread_read(t)
        \/ Thread_finish_map(t)
        \/ Thread_install(t)
        \/ Thread_remove_program(t)

SpecCommit == Init /\ [][NextCommit]_vars

\* A thread calls current_storage_root() and waits for the read lock.
Reader_call(t) ==
    /\ calls < MaxThreadCalls
    /\ threads[t].pc = "idle"
    /\ threads' = [threads EXCEPT ![t] = [Idle EXCEPT !.pc = "reading", !.op = "current_storage_root"]]
    /\ calls' = calls + 1
    /\ UNCHANGED <<storage, tree, is_speculate, twin, at_start, last, lock>>

\* *self.tree.read().root(): the read lock is granted while no mutator holds
\* the write lock, and the guard is a temporary of the expression, so the
\* lock is taken, the root read and the lock released in one step.
Reader_read(t) ==
    /\ threads[t].pc = "reading"
    /\ lock = 0
    /\ threads' = [threads EXCEPT ![t] = Idle]
    /\ last' = [op |-> "current_storage_root", args |-> <<>>, err |-> ""]
    /\ UNCHANGED <<storage, tree, is_speculate, twin, at_start, calls, lock>>

\* Concurrent mutators and readers of the root.
NextLive ==
    \/ NextConcurrent
    \/ \E t \in Threads : Reader_call(t) \/ Reader_read(t)

\* A step of a call that is under way, past its reads: the lock of the tree
\* is granted to a waiting thread, or a thread writes its batch or installs
\* its tree and returns.
Progress ==
    \E t \in Threads :
        \/ Thread_lock(t)
        \/ Thread_write(t)
        \/ Thread_install(t)
        \/ Reader_read(t)

\* Fair scheduling: as long as a call can take a step, some call does.  The
\* reads of a call (Thread_read, Thread_remove_program) are enabled exactly
\* while the thread is at "in" and are the only steps that leave it, so weak
\* fairness of them is that no thread stays at "in" for ever.  A run holds at
\* most MaxThreadCalls calls, so this is all the fairness the threads and the
\* lock are asked for.
Fairness ==
    /\ WF_vars(Progress)
    /\ \A t \in Threads : []<>(threads[t].pc # "in")

SpecLive == Init /\ [][NextLive]_vars /\ Fairness

\* ------------------------------------------------------------------- claims
Mutators ==
    {"initialize_mapping", "insert_key_value", "update_key_value",
     "remove_key_value", "remove_mapping", "remove_program"}

KeySet(im) == {im[i][1] : i \in 1..Len(im)}
ValueSet(im) == {im[i][2] : i \in 1..Len(im)}

\* The root of the finalize tree recomputed from the storage.
FreshRoot(S) == root(to_finalize_tree(S).tree)

\* C1: with the speculate flag off and no batch opened by the caller, after
\* every mutator call of the facade (successful or failed) the cached root
\* equals the root of the finalize tree recomputed from the storage.
C1_CachedRootIsFreshRoot ==
    last.op \in Mutators => current_storage_root(Store) = FreshRoot(storage)

C3_IndexesAreDense ==
    LET indexes == storage.program_index_map.map IN
    /\ ValueSet(indexes) = 0..(Len(indexes) - 1)
    /\ Cardinality(ValueSet(indexes)) = Len(indexes)

\* remove_program has removed a program deployed before others: program 3,
\* deployed third, now has index 1.
C3_Witness ==
    /\ last.op = "remove_program" /\ last.err = ""
    /\ Len(storage.program_index_map.map) = 2
    /\ Map_get(storage.program_index_map, 3) = Some(1)

\* C4: a successful remove_key_value(p, m, k) removes k's entry from the
\* key-value IDs of the mapping and leaves the remaining entries in their
\* previous relative order, whatever the position of k.
C4_RemoveKeyValueKeepsOrder ==
    [][(last'.op = "remove_key_value" /\ last'.err = "") =>
        \E p \in Programs, m \in MappingNames, k \in Keys :
            LET mid == MappingID(p, m)
                key_id == KeyID(mid, k)
                before == Map_get(storage.key_value_id_map, mid)
                after == Map_get(storage'.key_value_id_map, mid)
            IN /\ IsSome(before) /\ IsSome(after)
               /\ IndexMap_contains_key(Unwrap(before), key_id)
               /\ Unwrap(after) = IndexMap_shift_remove(Unwrap(before), key_id)]_vars

\* The entries of a committed backend map whose key is not in gone.
Without(m, gone) == SelectSeq(m, LAMBDA e : e[1] \notin gone)

\* C5: a successful remove_mapping(p, m) removes m from the mapping names of
\* p and leaves the remaining names in their previous relative order; it
\* deletes the mapping ID entry of (p, m), the key-value IDs of that mapping
\* and the key and value of each of its key IDs, and nothing else.
C5_RemoveMappingKeepsOrder ==
    [][(last'.op = "remove_mapping" /\ last'.err = "") =>
        \E p \in Programs, m \in MappingNames :
            LET mid == MappingID(p, m)
                names == Map_get(storage.program_id_map, p)
                key_value_ids == Map_get(storage.key_value_id_map, mid)
            IN /\ IsSome(names) /\ IsSome(key_value_ids)
               /\ IndexSet_contains(Unwrap(names), m)
               /\ storage'.program_id_map.map =
                      IndexMap_insert(storage.program_id_map.map, p,
                          ShiftRemoveAt(Unwrap(names), IndexOfElem(Unwrap(names), m, 1)))
               /\ storage'.program_index_map.map = storage.program_index_map.map
               /\ storage'.mapping_id_map.map = Without(storage.mapping_id_map.map, {<<p, m>>})
               /\ storage'.key_value_id_map.map = Without(storage.key_value_id_map.map, {mid})
               /\ storage'.key_map.map = Without(storage.key_map.map, KeySet(Unwrap(key_value_ids)))
               /\ storage'.value_map.map = Without(storage.value_map.map, KeySet(Unwrap(key_value_ids)))]_vars

\* C6: a sequence of mutators run in speculate mode, followed by a
\* recomputation of the finalize tree, gives the root that the same sequence
\* leaves in the cache of a store that is not in speculate mode.
C6_SpeculativeEquivalence ==
    IsSome(twin) => FreshRoot(Twin.storage) = current_storage_root(Store)

\* C7: with the speculate flag off, after start_atomic, any mutator calls and
\* abort_atomic, the committed content of the six maps and the cached root
\* are what they were just before start_atomic.
C7_AbortRestores ==
    last.op = "abort_atomic" =>
        /\ Committed(storage) = Unwrap(at_start).maps
        /\ current_storage_root(Store) = Unwrap(at_start).root

\* Invariants 1-6 of the storage, over the committed content C of the maps.
I1(C) == KeySet(C.program_id_map) = KeySet(C.program_index_map)

I2(C) ==
    /\ ValueSet(C.program_index_map) = 0..(Len(C.program_index_map) - 1)
    /\ Cardinality(ValueSet(C.program_index_map)) = Len(C.program_index_map)

I3(C) ==
    /\ \A p \in Programs, m \in MappingNames :
        IndexMap_contains_key(C.mapping_id_map, <<p, m>>)
            <=> /\ IndexMap_contains_key(C.program_id_map, p)
                /\ IndexSet_contains(Unwrap(IndexMap_get(C.program_id_map, p)), m)
    /\ \A i \in 1..Len(C.mapping_id_map) :
        C.mapping_id_map[i][2] = MappingID(C.mapping_id_map[i][1][1], C.mapping_id_map[i][1][2])

I4(C) == KeySet(C.key_value_id_map) = ValueSet(C.mapping_id_map)

\* The number of mappings whose key-value IDs hold key_id.
Holders(C, key_id) ==
    Cardinality({i \in 1..Len(C.key_value_id_map) :
                    IndexMap_contains_key(C.key_value_id_map[i][2], key_id)})

I5(C) ==
    LET held == UNION {KeySet(C.key_value_id_map[i][2]) : i \in 1..Len(C.key_value_id_map)} IN
    /\ KeySet(C.key_map) = KeySet(C.value_map)
    /\ KeySet(C.key_map) = held
    /\ \A key_id \in held : Holders(C, key_id) = 1

I6(C) ==
    \A i \in 1..Len(C.key_value_id_map) :
        LET mid == C.key_value_id_map[i][1]
            key_value_ids == C.key_value_id_map[i][2]
        IN \A j \in 1..Len(key_value_ids) :
            LET key_id == key_value_ids[j][1]
                value_id == key_value_ids[j][2]
            IN /\ IndexMap_contains_key(C.key_map, key_id)
               /\ IndexMap_contains_key(C.value_map, key_id)
               /\ key_id = KeyID(mid, Unwrap(IndexMap_get(C.key_map, key_id)))
               /\ value_id = ValueID(key_id, Unwrap(IndexMap_get(C.value_map, key_id)))

I1to6(C) == I1(C) /\ I2(C) /\ I3(C) /\ I4(C) /\ I5(C) /\ I6(C)

\* C8: after start_atomic, any mutator calls and finish_atomic, the committed
\* maps satisfy invariants 1-6.
C8_InvariantsAfterFinish ==
    (last.op = "finish_atomic" /\ last.err = "") => I1to6(Committed(storage))

\* The storage as it will be once the open batch is committed.
Pending(S) == finish_atomic(S).s

\* C9: while a batch is open every query answers from the pending view of
\* the batch.
C9_QueriesAnswerFromPendingView ==
    is_atomic_in_progress(storage) =>
        \A p \in Programs, m \in MappingNames, k \in Keys :
            LET key_id == KeyID(MappingID(p, m), k) IN
            /\ contains_program(storage, p) = contains_program(Pending(storage), p)
            /\ contains_mapping(storage, p, m) = contains_mapping(Pending(storage), p, m)
            /\ contains_key(storage, p, m, k) = contains_key(Pending(storage), p, m, k)
            /\ get_mapping_names(storage, p) = get_mapping_names(Pending(storage), p)
            /\ get_mapping_id(storage, p, m) = get_mapping_id(Pending(storage), p, m)
            /\ get_key_id(storage, p, m, k) = get_key_id(Pending(storage), p, m, k)
            /\ get_key(storage, key_id) = get_key(Pending(storage), key_id)
            /\ get_value(storage, p, m, k) = get_value(Pending(storage), p, m, k)
            /\ get_value_from_key_id(storage, key_id) = get_value_from_key_id(Pending(storage), key_id)

\* C10: two mutator calls of concurrent threads are serialized: between the
\* reads of a call and its writes, and between its writes and the
\* installation of its tree, no other call writes the storage or the tree.
C10_MutatorsSerialized ==
    \A t \in Threads :
        threads[t].pc \in {"validated", "written"} =>
            /\ threads[t].view = storage
            /\ threads[t].tree_seen = tree

\* The store st is back where it was: removed is the outcome of the call
\* that undoes an earlier one.
Restored(st, removed) ==
    /\ removed.err = ""
    /\ removed.st.storage = st.storage
    /\ current_storage_root(removed.st) = current_storage_root(st)

RoundTripRestores(st, inserted, p, m, k) ==
    inserted.err = "" => Restored(st, FinalizeStore_remove_key_value(inserted.st, p, m, k))

\* C11: in any state where insert_key_value(p, m, k, v) succeeds, following
\* it with remove_key_value(p, m, k) restores the six maps, the order of
\* their entries included, and the cached root.
C11_InsertRemoveRoundTrip ==
    \A p \in Programs, m \in MappingNames, k \in Keys, v \in Values :
        RoundTripRestores(Store, FinalizeStore_insert_key_value(Store, p, m, k, v), p, m, k)

\* The store after the third update is the store st after the first.
ReEntered(st, third) ==
    /\ third.err = ""
    /\ third.st.storage = st.storage
    /\ current_storage_root(third.st) = current_storage_root(st)

UpdateReEntry(st, second, p, m, k, v1) ==
    /\ second.err = ""
    /\ ReEntered(st, FinalizeStore_update_key_value(second.st, p, m, k, v1))

\* C12: for any key k of an initialized mapping and values v1, v2, the calls
\* update_key_value(k, v1); update_key_value(k, v2); update_key_value(k, v1)
\* end with the six maps and the cached root equal to those right after the
\* first update.
C12_UpdateReEntry ==
    (last.op = "update_key_value" /\ last.err = "") =>
        \A v2 \in Values :
            UpdateReEntry(Store,
                FinalizeStore_update_key_value(Store, last.args[1], last.args[2], last.args[3], v2),
                last.args[1], last.args[2], last.args[3], last.args[4])

\* The last call was a successful update of the key at the first of at
\* least two entries of its mapping.
C12_Witness ==
    /\ last.op = "update_key_value" /\ last.err = ""
    /\ LET mapping_id == MappingID(last.args[1], last.args[2])
           key_value_ids == Unwrap(Map_get(storage.key_value_id_map, mapping_id))
       IN /\ Len(key_value_ids) >= 2
          /\ key_value_ids[1][1] = KeyID(mapping_id, last.args[3])

\* The committed maps of S2 are those of S with the value of key (already in
\* the mapping) overwritten by value: the value and the value ID are
\* replaced where they stand and nothing else changes.
UpdateOverwrites(S, S2, program_id, mapping_name, key, value) ==
    LET mapping_id == MappingID(program_id, mapping_name)
        key_id == KeyID(mapping_id, key)
        key_value_ids == Unwrap(Map_get(S.key_value_id_map, mapping_id))
    IN /\ S2.value_map.map =
              ReplaceAt(S.value_map.map, get_index_of(S.value_map.map, key_id), <<key_id, value>>)
       /\ S2.key_value_id_map.map =
              ReplaceAt(S.key_value_id_map.map, get_index_of(S.key_value_id_map.map, mapping_id),
                  <<mapping_id,
                    ReplaceAt(key_value_ids, get_index_of(key_value_ids, key_id),
                              <<key_id, ValueID(key_id, value)>>)>>)
       /\ S2.key_map.map = S.key_map.map
       /\ S2.mapping_id_map.map = S.mapping_id_map.map
       /\ S2.program_id_map.map = S.program_id_map.map
       /\ S2.program_index_map.map = S.program_index_map.map

\* C13: a successful update_key_value(p, m, k, v) has exactly the effect of
\* insert_key_value(p, m, k, v) when k is absent (the entry is appended to
\* the key-value IDs of the mapping), and when k is present it overwrites the
\* value and the value ID of k at k's position, leaving the order and every
\* other entry as they were.
C13_UpdateInsertsOrOverwrites ==
    [][(last'.op = "update_key_value" /\ last'.err = "") =>
        IF contains_key(storage, last'.args[1], last'.args[2], last'.args[3])
        THEN UpdateOverwrites(storage, storage',
                 last'.args[1], last'.args[2], last'.args[3], last'.args[4])
        ELSE StoreOk([storage |-> storage', tree |-> tree', is_speculate |-> is_speculate']) =
                 FinalizeStore_insert_key_value(Store,
                     last'.args[1], last'.args[2], last'.args[3], last'.args[4])]_vars

\* The last call was a successful update of the key at the second of three
\* entries of its mapping.
C13_Witness ==
    /\ last.op = "update_key_value" /\ last.err = ""
    /\ LET mapping_id == MappingID(last.args[1], last.args[2])
           key_value_ids == Unwrap(Map_get(storage.key_value_id_map, mapping_id))
       IN /\ Len(key_value_ids) = 3
          /\ key_value_ids[2][1] = KeyID(mapping_id, last.args[3])

\* The storage mutator a facade mutator delegates to.
Delegate(op, args, S) ==
    CASE op = "initialize_mapping" -> FinalizeStorage_initialize_mapping(S, args[1], args[2])
      [] op = "insert_key_value" -> FinalizeStorage_insert_key_value(S, args[1], args[2], args[3], args[4])
      [] op = "update_key_value" -> FinalizeStorage_update_key_value(S, args[1], args[2], args[3], args[4])
      [] op = "remove_key_value" -> FinalizeStorage_remove_key_value(S, args[1], args[2], args[3])
      [] op = "remove_mapping" -> FinalizeStorage_remove_mapping(S, args[1], args[2])
      [] op = "remove_program" -> FinalizeStorage_remove_program(S, args[1])

\* C14: while the speculate flag is set no facade mutator changes the cached
\* finalize tree, and the six maps change exactly as the storage mutator of
\* the same name prescribes.
C14_SpeculateLeavesTree ==
    [][(is_speculate /\ last'.op \in Mutators) =>
        /\ tree' = tree
        /\ storage' = Delegate(last'.op, last'.args, storage).s
        /\ last'.err = Delegate(last'.op, last'.args, storage).err]_vars

\* A mutator has succeeded in speculate mode and the cached root is no longer
\* the root of the storage.
C14_Witness ==
    /\ is_speculate
    /\ last.op \in Mutators /\ last.err = ""
    /\ current_storage_root(Store) # FreshRoot(storage)

\* The deployment indexes after, once the program at deployment index gone
\* is removed from those before: every program above it is lowered by one,
\* every program below it keeps its index.
Renumbered(before, after, program_id) ==
    LET gone == Unwrap(IndexMap_get(before, program_id)) IN
    /\ KeySet(after) = KeySet(before) \ {program_id}
    /\ \A q \in KeySet(after) :
        Unwrap(IndexMap_get(after, q)) =
            IF Unwrap(IndexMap_get(before, q)) > gone
            THEN Unwrap(IndexMap_get(before, q)) - 1
            ELSE Unwrap(IndexMap_get(before, q))

\* C15: remove_program(p) lowers by exactly one the deployment index of every
\* surviving program whose index was greater than p's and leaves the other
\* indexes as they were; an insert_key_value into a program replaces the leaf
\* of the finalize tree at the program's current deployment index by the
\* root of the program's tree and no other leaf.
C15_RemoveProgramRenumbers ==
    [][/\ (last'.op = "remove_program" /\ last'.err = "") =>
            Renumbered(storage.program_index_map.map, storage'.program_index_map.map,
                       last'.args[1])
       /\ (last'.op = "insert_key_value" /\ last'.err = "") =>
            tree'.leaves =
                ReplaceAt(tree.leaves,
                          Unwrap(Map_get(storage'.program_index_map, last'.args[1])) + 1,
                          root(to_program_tree(storage', last'.args[1], <<>>).tree))]_vars

\* Program 3, deployed third, has index 1 since an earlier program was
\* removed, and the last call inserted a key into it.
C15_Witness ==
    /\ last.op = "insert_key_value" /\ last.err = "" /\ last.args[1] = 3
    /\ Len(storage.program_index_map.map) = 2
    /\ Map_get(storage.program_index_map, 3) = Some(1)

\* The entries of S2 are those of S after a successful initialize_mapping of
\* (program_id, mapping_name).
MappingInitialized(S, S2, program_id, mapping_name) ==
    LET mapping_id == MappingID(program_id, mapping_name)
        names == Map_get(S.program_id_map, program_id)
        indexes == S.program_index_map.map
    IN /\ S2.program_id_map.map =
              IndexMap_insert(S.program_id_map.map, program_id,
                  Append(IF IsSome(names) THEN Unwrap(names) ELSE <<>>, mapping_name))
       /\ S2.mapping_id_map.map =
              Append(S.mapping_id_map.map, <<<<program_id, mapping_name>>, mapping_id>>)
       /\ S2.key_value_id_map.map = Append(S.key_value_id_map.map, <<mapping_id, <<>>>>)
       /\ S2.program_index_map.map =
              IF IsSome(names) THEN indexes
              ELSE Append(indexes,
                       <<program_id,
                         IF Len(indexes) = 0 THEN 0
                         ELSE 1 + CHOOSE x \in ValueSet(indexes) : \A y \in ValueSet(indexes) : y <= x>>)
       /\ S2.key_map.map = S.key_map.map
       /\ S2.value_map.map = S.value_map.map

\* C16: a successful initialize_mapping(p, m) appends m to the mapping names
\* of p, inserts the mapping ID H(p, m) of (p, m) and an empty set of
\* key-value IDs for it; a new p receives the index max + 1 (0 when no program
\* exists), an existing p and every other program keep their indexes; the
\* leaf of p in the finalize tree stands at the index of p.
C16_InitializeMappingEffect ==
    [][(last'.op = "initialize_mapping" /\ last'.err = "") =>
        /\ MappingInitialized(storage, storage', last'.args[1], last'.args[2])
        /\ tree'.leaves =
            IF Map_contains_key(storage.program_index_map, last'.args[1])
            THEN ReplaceAt(tree.leaves,
                           Unwrap(Map_get(storage'.program_index_map, last'.args[1])) + 1,
                           root(to_program_tree(storage', last'.args[1], <<>>).tree))
            ELSE Append(tree.leaves, root(to_program_tree(storage', last'.args[1], <<>>).tree))
        /\ Len(tree'.leaves) > Unwrap(Map_get(storage'.program_index_map, last'.args[1]))
        /\ tree'.leaves[Unwrap(Map_get(storage'.program_index_map, last'.args[1])) + 1] =
                root(to_program_tree(storage', last'.args[1], <<>>).tree)]_vars

\* The last call initialized the first mapping of program 1, deployed anew
\* while program 2, renumbered by an earlier removal, was the only program:
\* program 1 has index 1.
C16_Witness ==
    /\ last.op = "initialize_mapping" /\ last.err = "" /\ last.args[1] = 1
    /\ Map_get(storage.program_index_map, 2) = Some(0)
    /\ Map_get(storage.program_index_map, 1) = Some(1)
    /\ Map_get(storage.program_id_map, 1) = Some(<<last.args[2]>>)

\* What the queries answer about mapping (q, n) and its keys.
Answers(S, q, n) ==
    <<contains_mapping(S, q, n), get_mapping_id(S, q, n),
      IF IsSome(get_mapping_id(S, q, n))
      THEN Map_get_speculative(S.key_value_id_map, Unwrap(get_mapping_id(S, q, n)))
      ELSE None,
      [k \in Keys |-> <<contains_key(S, q, n, k), get_value(S, q, n, k)>>]>>

\* C17: after a successful remove_mapping(p, m) the program p still exists
\* and keeps its index, even when it is left with no mapping; the mapping
\* (p, m) is gone, no key of it is contained and get_value finds no value
\* for it; the entries of every other mapping are as they were.
C17_RemoveMappingKeepsProgram ==
    [][(last'.op = "remove_mapping" /\ last'.err = "") =>
        /\ contains_program(storage', last'.args[1])
        /\ IsSome(get_mapping_names(storage', last'.args[1]))
        /\ Map_get(storage'.program_index_map, last'.args[1]) =
               Map_get(storage.program_index_map, last'.args[1])
        /\ ~contains_mapping(storage', last'.args[1], last'.args[2])
        /\ \A k \in Keys :
            /\ ~contains_key(storage', last'.args[1], last'.args[2], k)
            /\ get_value(storage', last'.args[1], last'.args[2], k) = None
        /\ \A q \in Programs, n \in MappingNames :
            <<q, n>> # <<last'.args[1], last'.args[2]>> =>
                Answers(storage', q, n) = Answers(storage, q, n)]_vars

\* The last call removed the only mapping of program 1, which is left with
\* no mapping, while a mapping of another program holds a key.
C17_Witness ==
    /\ last.op = "remove_mapping" /\ last.err = "" /\ last.args[1] = 1
    /\ get_mapping_names(storage, 1) = Some(<<>>)
    /\ Len(storage.key_map.map) >= 1

\* The mapping IDs and the key IDs a program can hold.
MappingIDsOf(p) == {MappingID(p, m) : m \in MappingNames}
KeyIDsOf(p) == {KeyID(MappingID(p, m), k) : m \in MappingNames, k \in Keys}

\* C18: after a successful remove_program(p) the mapping names and the index
\* of p are gone, every mapping of p is gone from the mapping IDs and the
\* key-value IDs, every key of those mappings is gone from the keys and the
\* values, and the mappings and entries of every other program are as they
\* were.
C18_RemoveProgramEffect ==
    [][(last'.op = "remove_program" /\ last'.err = "") =>
        /\ storage'.program_id_map.map = Without(storage.program_id_map.map, {last'.args[1]})
        /\ KeySet(storage'.program_index_map.map) =
               KeySet(storage.program_index_map.map) \ {last'.args[1]}
        /\ storage'.mapping_id_map.map =
               Without(storage.mapping_id_map.map, {last'.args[1]} \X MappingNames)
        /\ storage'.key_value_id_map.map =
               Without(storage.key_value_id_map.map, MappingIDsOf(last'.args[1]))
        /\ storage'.key_map.map = Without(storage.key_map.map, KeyIDsOf(last'.args[1]))
        /\ storage'.value_map.map = Without(storage.value_map.map, KeyIDsOf(last'.args[1]))
        /\ \A m \in MappingNames, k \in Keys :
            /\ ~contains_mapping(storage', last'.args[1], m)
            /\ get_value(storage', last'.args[1], m, k) = None]_vars

\* The last call removed a program, and of the two mappings that remain one
\* holds a key.
C18_Witness ==
    /\ last.op = "remove_program" /\ last.err = ""
    /\ ~contains_program(storage, last.args[1])
    /\ Len(storage.mapping_id_map.map) = 2
    /\ Len(storage.key_map.map) = 1

\* What get_value answers for every program, mapping name and key.
Reads(S) ==
    [q \in Programs \X MappingNames \X Keys |-> get_value(S, q[1], q[2], q[3])]

\* What get_value answers after a call, given what it answered before it: a
\* successful insert or update sets the value of its key, a successful
\* removal clears the key, the mapping or the program it names, and any other
\* call changes nothing.
ReadsAfter(R, op, args, err) ==
    [q \in Programs \X MappingNames \X Keys |->
        IF err # "" THEN R[q]
        ELSE IF op \in {"insert_key_value", "update_key_value"}
                /\ q = <<args[1], args[2], args[3]>> THEN Some(args[4])
        ELSE IF op = "remove_key_value" /\ q = <<args[1], args[2], args[3]>> THEN None
        ELSE IF op = "remove_mapping" /\ <<q[1], q[2]>> = <<args[1], args[2]>> THEN None
        ELSE IF op = "remove_program" /\ q[1] = args[1] THEN None
        ELSE R[q]]

\* contains_key is true exactly when get_value returns a value.
ContainsIffValue(S) ==
    \A p \in Programs, m \in MappingNames, k \in Keys :
        contains_key(S, p, m, k) <=> IsSome(get_value(S, p, m, k))

\* C19: with no batch opened by the caller, get_value finds nothing in the
\* opened store, after every call it returns for each key the value of the
\* most recent successful insert or update that no removal of the key, of its
\* mapping or of its program followed, and None otherwise; and contains_key
\* is true exactly when get_value returns a value.
C19_ReadYourWrites ==
    /\ Reads(storage) = [q \in Programs \X MappingNames \X Keys |-> None]
    /\ []ContainsIffValue(storage)
    /\ [][\/ last'.err # "" /\ storage' = storage
          \/ Reads(storage') = ReadsAfter(Reads(storage), last'.op, last'.args, last'.err)]_vars

\* The last call removed a key of a mapping whose other key still reads the
\* value it was given.
C19_Witness ==
    /\ last.op = "remove_key_value" /\ last.err = ""
    /\ get_value(storage, last.args[1], last.args[2], last.args[3]) = None
    /\ \E k \in Keys \ {last.args[3]} :
        /\ get_value(storage, last.args[1], last.args[2], k) = Some(2)
        /\ contains_key(storage, last.args[1], last.args[2], k)

\* C20: with no batch opened by the caller, initialize_mapping(p, m) on a
\* mapping that is already initialized returns an error and leaves the six
\* maps, the cached tree and current_storage_root() as they were, with the
\* speculate flag on or off.
C20_InitializeTwiceFails ==
    [][(last'.op = "initialize_mapping"
        /\ contains_mapping(storage, last'.args[1], last'.args[2])) =>
        /\ last'.err # ""
        /\ storage' = storage
        /\ tree' = tree
        /\ current_storage_root([storage |-> storage', tree |-> tree',
                                 is_speculate |-> is_speculate'])
               = current_storage_root(Store)]_vars

\* The last call, with the speculate flag off, was refused for a mapping that
\* holds a key and is still there.
C20_Witness ==
    /\ last.op = "initialize_mapping" /\ last.err = "MappingAlreadyExists"
    /\ ~is_speculate
    /\ contains_mapping(storage, last.args[1], last.args[2])
    /\ \E k \in Keys : contains_key(storage, last.args[1], last.args[2], k)

\* The store after a step.
StoreNext == [storage |-> storage', tree |-> tree', is_speculate |-> is_speculate']

\* A step that leaves the six maps, the cached tree and the root alone.
NothingChanged ==
    /\ storage' = storage
    /\ tree' = tree
    /\ current_storage_root(StoreNext) = current_storage_root(Store)

\* C21: with no batch opened by the caller, insert_key_value(p, m, k, v) on a
\* key the mapping already holds returns an error whatever v is, and the
\* stored value, the six maps, the cached tree and current_storage_root() are
\* as they were, with the speculate flag on or off.
C21_InsertExistingKeyFails ==
    [][(last'.op = "insert_key_value"
        /\ contains_key(storage, last'.args[1], last'.args[2], last'.args[3])) =>
        /\ last'.err # ""
        /\ NothingChanged
        /\ get_value(storage', last'.args[1], last'.args[2], last'.args[3])
               = get_value(storage, last'.args[1], last'.args[2], last'.args[3])]_vars

\* The last call, with the speculate flag off, was an insert refused for a
\* key that holds a value other than the one the call brought.
C21_Witness ==
    /\ last.op = "insert_key_value" /\ last.err = "KeyAlreadyExists"
    /\ ~is_speculate
    /\ \E w \in Values \ {last.args[4]} :
        get_value(storage, last.args[1], last.args[2], last.args[3]) = Some(w)

\* The mutators that need an initialized mapping.
NeedMapping == {"insert_key_value", "update_key_value", "remove_key_value", "remove_mapping"}

\* C22: with no batch opened by the caller, insert_key_value,
\* update_key_value, remove_key_value and remove_mapping on a (program,
\* mapping) that is not initialized each return an error, create neither the
\* program nor the mapping nor the key, and leave the six maps, the cached
\* tree and current_storage_root() as they were, with the speculate flag on
\* or off.
C22_MustInitializeFirst ==
    [][(last'.op \in NeedMapping
        /\ ~contains_mapping(storage, last'.args[1], last'.args[2])) =>
        /\ last'.err # ""
        /\ NothingChanged
        /\ contains_program(storage', last'.args[1]) = contains_program(storage, last'.args[1])
        /\ ~contains_mapping(storage', last'.args[1], last'.args[2])
        /\ \A k \in Keys :
            /\ ~contains_key(storage', last'.args[1], last'.args[2], k)
            /\ get_value(storage', last'.args[1], last'.args[2], k) = None]_vars

\* The last call was an update refused, with the speculate flag on, for a
\* mapping that is not initialized in a program that is not there.
C22_Witness ==
    /\ last.op = "update_key_value" /\ last.err = "MappingNotInitialized"
    /\ is_speculate
    /\ ~contains_program(storage, last.args[1])
    /\ ~contains_mapping(storage, last.args[1], last.args[2])
    /\ Len(storage.key_map.map) >= 1

\* C23: with no batch opened by the caller, remove_key_value(p, m, k) for a
\* key the initialized mapping (p, m) does not hold and remove_program(p) for
\* a program with no entry each return an error and leave the six maps, the
\* cached tree and current_storage_root() as they were, with the speculate
\* flag on or off.
C23_RemoveAbsentFails ==
    [][(\/ /\ last'.op = "remove_key_value"
           /\ contains_mapping(storage, last'.args[1], last'.args[2])
           /\ ~contains_key(storage, last'.args[1], last'.args[2], last'.args[3])
        \/ /\ last'.op = "remove_program"
           /\ ~contains_program(storage, last'.args[1])) =>
        /\ last'.err # ""
        /\ NothingChanged]_vars

\* The last call, with the speculate flag off, was the removal of a key
\* refused by a mapping that holds another key.
C23_Witness ==
    /\ last.op = "remove_key_value" /\ last.err # ""
    /\ ~is_speculate
    /\ contains_mapping(storage, last.args[1], last.args[2])
    /\ ~contains_key(storage, last.args[1], last.args[2], last.args[3])
    /\ \E k \in Keys : contains_key(storage, last.args[1], last.args[2], k)

\* C24: when finish_atomic() returns an error because one of the six maps
\* failed to finish, none of the six maps has committed a write of the
\* batch: the committed content is what it was when the batch was opened.
C24_FailedFinishCommitsNothing ==
    (last.op = "finish_atomic" /\ last.err # "") =>
        Committed(storage) = Unwrap(at_start).maps

\* The six maps already hold every write of the batch: applying the writes
\* again changes nothing.
HoldsWrites(S, writes) == Written(S, writes) = S

\* C25: under concurrent mutators the root never runs ahead of the maps.  A
\* reader takes the read lock of the tree for current_storage_root(), so it
\* reads the root in a state where no mutator holds the write lock, and it
\* queries the maps in a later state.  Every step that changes the cached
\* tree is taken by the thread that holds the write lock, and the maps then
\* already hold every write of the call the new tree belongs to: the maps a
\* reader finds after it has read a root are the state of that root or a
\* later one.
C25_RootNeverAheadOfMaps ==
    [][tree' # tree =>
        \E t \in Threads :
            /\ lock = t
            /\ IF threads[t].op = "remove_program"
               THEN tree' = to_finalize_tree(storage').tree
               ELSE /\ storage' = storage
                    /\ HoldsWrites(storage, threads[t].writes)
                    /\ tree' = threads[t].updated_tree]_vars

\* A call has just installed its tree and released the lock while the other
\* thread is in a call of its own that waits for the lock; the maps hold a
\* key and the root is the root of the maps.
C25_Witness ==
    /\ last.op = "insert_key_value" /\ last.err = ""
    /\ ~is_speculate
    /\ lock = 0
    /\ \E t \in Threads : threads[t].pc = "loaded"
    /\ Len(storage.key_map.map) >= 1
    /\ current_storage_root(Store) = FreshRoot(storage)

\* A quiescent state: no batch is open on any of the six maps and no thread
\* is inside a call.
Quiescent ==
    /\ ~is_atomic_in_progress(storage)
    /\ \A t \in Threads : threads[t].pc = "idle"

\* C26: in every quiescent state ProgramIDMap and ProgramIndexMap have the
\* same key set, and contains_program(p) is true exactly for the programs of
\* that set.
C26_ProgramMapsAgree ==
    Quiescent =>
        /\ I1(Committed(storage))
        /\ \A p \in Programs :
            contains_program(storage, p) <=> p \in KeySet(storage.program_id_map.map)

\* C27: in every quiescent state MappingIDMap has an entry for (p, m) exactly
\* when m is one of the mapping names ProgramIDMap holds for p, and the value
\* of that entry is H(p, m).
C27_MappingIDsMatchNames == Quiescent => I3(Committed(storage))

\* C28: in every quiescent state the key set of KeyValueIDMap is the set of
\* values of MappingIDMap.
C28_EntryListsMatchMappings == Quiescent => I4(Committed(storage))

\* C29: in every quiescent state KeyMap and ValueMap have the same key set,
\* which is the disjoint union of the key IDs of the entry lists of
\* KeyValueIDMap.
C29_KeysAreDisjointUnion == Quiescent => I5(Committed(storage))

\* C30: in every quiescent state every entry (key_id -> value_id) of
\* KeyValueIDMap[mid] has value_id = H(key_id, H(ValueMap[key_id])) and
\* key_id = H(mid, H(KeyMap[key_id])).
C30_IdentifiersAreHashes == Quiescent => I6(Committed(storage))

\* The per-mapping checksum c_mid of the i-th mapping of KeyValueIDMap:
\* H(bits(mid) followed by the value IDs of mid in the mapping's entry order).
PerMapping(i) ==
    LET e == storage.key_value_id_map.map[i]
    IN hash_bhp1024(<<e[1]>> \o [j \in 1..Len(e[2]) |-> e[2][j][2]])

\* C31 (as stated): get_checksum() is H of the per-mapping checksums taken in
\* the iteration order of KeyValueIDMap.
C31_ChecksumInIterationOrder ==
    LET kv == storage.key_value_id_map.map
        c == get_checksum(storage).h
    IN Len(c) = Len(kv) /\ \A i \in 1..Len(kv) : c[i] = PerMapping(i)

\* C31 (amended): get_checksum() is H of the per-mapping checksums taken in
\* ascending order of mapping ID, whatever the iteration order of
\* KeyValueIDMap: the checksum of a mapping stands at the position given by
\* the number of mappings with a smaller ID.
C31_ChecksumInMappingIDOrder ==
    LET kv == storage.key_value_id_map.map
        c == get_checksum(storage).h
    IN /\ Len(c) = Len(kv)
       /\ \A i \in 1..Len(kv) :
            c[1 + Cardinality({l \in 1..Len(kv) : Field_lt(kv[l][1], kv[i][1])})] = PerMapping(i)

\* KeyValueIDMap iterates over its mappings in an order that is not the
\* order of their IDs, and one of them holds an entry.
C31_Witness ==
    LET kv == storage.key_value_id_map.map
    IN /\ \E i, j \in 1..Len(kv) : i < j /\ Field_lt(kv[j][1], kv[i][1])
       /\ \E i \in 1..Len(kv) : Len(kv[i][2]) >= 1
       /\ last.err = ""

\* The store after insert_key_value(p, m, order[i], val[order[i]]) for the
\* i-th key of the order on: [err, st], the first error ending the sequence.
RECURSIVE InsertAll(_, _, _, _, _, _)
InsertAll(st, p, m, order, val, i) ==
    IF i > Len(order) THEN StoreOk(st)
    ELSE Bind([r \in {FinalizeStore_insert_key_value(st, p, m, order[i], val[order[i]])} |->
         IF r.err # "" THEN r ELSE InsertAll(r.st, p, m, order, val, i + 1)])

\* The orders in which the keys of K can be inserted.
Orders(K) ==
    {o \in [1..Cardinality(K) -> K] : \A i, j \in 1..Cardinality(K) : o[i] = o[j] => i = j}

\* What inserting the entries val into the mapping (p, m) of the store st in
\* the order o gives: the outcome, the keys the storage holds, the leaves and
\* the root of the mapping tree, and the storage root recomputed and cached.
Inserted(st, p, m, val, o) ==
    Bind([r \in {InsertAll(st, p, m, o, val, 1)} |->
    Bind([mapping_tree \in {to_mapping_tree(r.st.storage, p, m, <<>>).tree} |->
        [err |-> r.err,
         keys |-> KeySet(r.st.storage.value_map.map),
         leaves |-> mapping_tree.leaves,
         mapping_root |-> root(mapping_tree),
         fresh_root |-> FreshRoot(r.st.storage),
         storage_root |-> current_storage_root(r.st)]])])

\* Two insertion orders of the same entries: both succeed and leave the same
\* keys, with different leaves, mapping-tree roots and storage roots.
OrderMatters(a, b) ==
    /\ a.err = "" /\ b.err = ""
    /\ a.keys = b.keys
    /\ a.leaves # b.leaves
    /\ a.mapping_root # b.mapping_root
    /\ a.fresh_root # b.fresh_root
    /\ a.storage_root # b.storage_root

\* C32: in every state and for every initialized mapping, inserting the same
\* set of two or more new (key, value) entries in two different orders gives
\* different mapping-tree leaf sequences, different mapping-tree roots and
\* different storage roots (the inserts count as calls, so the sequences
\* compared are the ones MaxCalls leaves room for).
C32_OrderSensitive ==
    \A p \in Programs : \A m \in MappingsHeld(p) :
        \A K \in SUBSET (Keys \ KeysHeld(p, m)) :
            Cardinality(K) >= 2 /\ calls + Cardinality(K) <= MaxCalls =>
                \A val \in [K -> Values] :
                    Bind([out \in {[o \in Orders(K) |-> Inserted(Store, p, m, val, o)]} |->
                        \A o1, o2 \in Orders(K) : o1 # o2 => OrderMatters(out[o1], out[o2])])

\* A mapping that holds an entry already and has two keys left to insert.
C32_Witness ==
    /\ last.op = "insert_key_value" /\ last.err = ""
    /\ Cardinality(KeysHeld(last.args[1], last.args[2])) = 1
    /\ Cardinality(Keys \ KeysHeld(last.args[1], last.args[2])) >= 2
    /\ calls + 2 <= MaxCalls

\* The MerkleTreeUpdate the facade mutator op(args) hands to to_program_tree
\* in the storage S.
UpdateOf(S, op, args) ==
    LET mapping_id == MappingID(args[1], args[2])
        key_id == KeyID(mapping_id, args[3])
        entries == Map_get(S.key_value_id_map, mapping_id)
        key_id_index == IF IsSome(entries) THEN get_index_of(Unwrap(entries), key_id) ELSE 0
    IN CASE op = "initialize_mapping" -> InsertMapping(mapping_id)
         [] op = "insert_key_value" -> InsertValue(mapping_id, key_id, ValueID(key_id, args[4]))
         [] op = "update_key_value" ->
                IF key_id_index # 0
                THEN UpdateValue(mapping_id, key_id_index - 1, key_id, ValueID(key_id, args[4]))
                ELSE InsertValue(mapping_id, key_id, ValueID(key_id, args[4]))
         [] op = "remove_key_value" -> RemoveValue(mapping_id, key_id_index - 1)
         [] op = "remove_mapping" -> RemoveMapping(mapping_id)

\* A successful call of one of the mutators ops: the program tree built
\* before the call as if the update were applied has the root of the program
\* tree built from the storage after the call.
DifferentialUpdate(ops) ==
    (last'.op \in ops /\ last'.err = "" /\ calls' = calls + 1) =>
        root(to_program_tree(storage, last'.args[1],
                             <<UpdateOf(storage, last'.op, last'.args)>>).tree)
            = root(to_program_tree(storage', last'.args[1], <<>>).tree)

\* C33: for every facade mutator other than remove_program and every state
\* in which it succeeds, to_program_tree(p, [update]) before the storage
\* mutation has the root of to_program_tree(p, None) after it.
C33_DifferentialUpdateEquivalence ==
    [][DifferentialUpdate(Mutators \ {"remove_program"})]_vars

\* The mapping or the key the call names was created inside the batch the
\* caller has open: the pending view holds it, the committed view does not.
CreatedInBatch(op, args) ==
    /\ is_atomic_in_progress(storage)
    /\ \/ /\ op = "initialize_mapping"
          /\ IsSome(get_mapping_id(storage, args[1], args[2]))
          /\ ~Map_contains_key(storage.mapping_id_map, <<args[1], args[2]>>)
       \/ /\ op = "insert_key_value"
          /\ IsSome(get_key(storage, KeyID(MappingID(args[1], args[2]), args[3])))
          /\ ~Map_contains_key(storage.key_map, KeyID(MappingID(args[1], args[2]), args[3]))

\* C34: inside a batch the caller opened, an initialize_mapping of a mapping
\* initialized earlier in the batch fails, and an insert_key_value of a key
\* inserted earlier in the batch fails.
C34_PreconditionsUsePendingView ==
    [][(calls' = calls + 1 /\ CreatedInBatch(last'.op, last'.args)) => last'.err # ""]_vars

\* C35: while the batch of a mutator is being committed, the committed
\* content a concurrent reader finds is never one in which only some of the
\* six maps hold the writes of the call: until the last map has finished it
\* is the content the call started from.
C35_ReaderSeesAllOrNothing ==
    \A t \in Threads :
        threads[t].pc = "validated" => Committed(storage) = Committed(threads[t].view)

\* update_key_value has found the key ID in the entry list of the mapping and
\* no key for it in the pending view of KeyMap.
InconsistencyBranch(S, program_id, mapping_name, key) ==
    LET mid == get_mapping_id(S, program_id, mapping_name)
        entries == Map_get_speculative(S.key_value_id_map, Unwrap(mid))
        key_id == KeyID(Unwrap(mid), key)
    IN /\ IsSome(mid)
       /\ IsSome(entries)
       /\ ~IsSome(Map_get_speculative(S.key_map, key_id))
       /\ IndexMap_contains_key(Unwrap(entries), key_id)

\* C36: in no state reached through the mutators, inside or outside a batch
\* the caller opened, would an update_key_value take the inconsistency
\* branch, and no call has returned its error.
C36_InconsistencyBranchUnreachable ==
    /\ last.err # "InconsistentState"
    /\ \A p \in Programs : \A m \in MappingNames : \A k \in Keys :
            ~InconsistencyBranch(storage, p, m, k)

\* C37: no call of a facade mutator, inside or outside a batch the caller
\* opened, hands to_mapping_tree an UpdateValue or a RemoveValue whose index
\* is not a position of the leaf list: the update never misses its leaf and
\* the removal never indexes out of bounds.
C37_UpdateIndexInBounds == last.err \notin {"MissingKeyValueLeaf", "Panic"}

\* C38: with the speculate flag off, after a successful remove_program(p)
\* the cached root is the root of the finalize tree recomputed from the
\* storage, whatever the cached tree was before the call.
C38_RemoveProgramRebuildsTree ==
    [][(last'.op = "remove_program" /\ last'.err = "" /\ calls' = calls + 1 /\ ~is_speculate)
        => current_storage_root(StoreNext) = FreshRoot(storage')]_vars

\* The speculate flag is off, the cached tree is stale, and the removal of a
\* program succeeds and leaves the cached root equal to the recomputed one
\* with a program still in the store.
C38_Witness ==
    /\ ~is_speculate
    /\ calls < MaxCalls
    /\ current_storage_root(Store) # FreshRoot(storage)
    /\ \E p \in Programs :
        LET r == FinalizeStore_remove_program(Store, p)
        IN /\ r.err = ""
           /\ Len(r.st.storage.program_id_map.map) >= 1
           /\ current_storage_root(r.st) = FreshRoot(r.st.storage)
           /\ current_storage_root(r.st) # current_storage_root(Store)

\* A thread of which a call is waiting for the lock of the tree.
Waiting(t) == threads[t].pc \in {"loaded", "reading"}

\* C39: the write lock of the tree is held only by a thread that is inside a
\* mutator call (it is released when the call returns, with or without an
\* error), and under fair scheduling every mutator and every reader of the
\* root that waits for the lock gets it and returns.
C39_LockReleasedAndLive ==
    /\ [](\A t \in Threads : lock = t => threads[t].pc \in {"in", "validated", "written"})
    /\ [](lock \in Threads \cup {0})
    /\ \A t \in Threads : Waiting(t) ~> (threads[t].pc = "idle")

\* A reader of the root waits while another thread holds the write lock, and
\* an earlier call has returned an error.
C39_Witness ==
    \E t, u \in Threads :
        /\ t # u
        /\ lock = u
        /\ threads[t].pc = "reading"
        /\ last.err # ""


\* C40: between calls the six maps agree on whether a batch is in progress,
\* so that is_atomic_in_progress() is the status of each of them: all six
\* have a batch in progress after start_atomic(), and none has after
\* finish_atomic() or abort_atomic().
C40_BatchStatusAgrees ==
    /\ \A n \in DOMAIN storage :
           Map_is_atomic_in_progress(storage[n]) = is_atomic_in_progress(storage)
    /\ last.op = "start_atomic" => is_atomic_in_progress(storage)
    /\ last.op \in {"finish_atomic", "abort_atomic"} => ~is_atomic_in_progress(storage)

====
